---- MODULE Spec2Model ----
(***************************************************************************)
(* A model of the symbol table of packages/core/src/symbol/SymbolUtil.ts:  *)
(* the global SymbolTable, the per-document SymbolStacks, the SymbolQuery  *)
(* objects handed to checkers, and the operations that enter, amend, look  *)
(* up, trim and retract symbols.                                           *)
(*                                                                         *)
(* JavaScript objects are modelled as a heap: a Symbol, a SymbolMap and a  *)
(* SymbolStack are each an index into an append-only sequence, so that two *)
(* references denote the same object exactly when the indices are equal    *)
(* and an object that was deleted from its container can still be reached  *)
(* through a reference kept elsewhere (a query's #map, relations.aliasOf). *)
(* An object literal (SymbolMap, SymbolTable) is an ordered dictionary: a  *)
(* sequence of [key, val] entries in insertion order, the order in which   *)
(* Object.keys enumerates it.                                              *)
(***************************************************************************)
EXTENDS Integers, Sequences, FiniteSets, TLC

\* The documents, categories and identifiers the callers use.
Uris == {"file:A", "file:B"}
Categories == {"nbtdoc"}
Identifiers == {"a", "b"}

\* null / undefined of a reference, and undefined of a string field.
Null == 0
Undefined == "undefined"

\* Symbol.ts: SymbolUsageTypes, in the order the code iterates them.
SymbolUsageTypes == <<"declaration", "definition", "implementation", "reference", "typeDefinition">>
UsageTypeSet == {SymbolUsageTypes[i] : i \in 1..Len(SymbolUsageTypes)}

\* SymbolVisibility; Undefined stands for an absent visibility.
Block == "Block"
File == "File"
Restricted == "Restricted"
Public == "Public"
SymbolVisibility == {Block, File, Restricted, Public}

VARIABLES
    symbols,      \* heap of Symbol objects
    maps,         \* heap of SymbolMap objects: identifier -> Symbol
    global,       \* SymbolUtil.global: category -> SymbolMap
    stackObjs,    \* heap of SymbolStack objects: each a sequence of SymbolTables
    stacks,       \* SymbolUtil.stacks: uri -> SymbolStack (Null when absent)
    isUriBinding, \* SymbolUtil.isUriBinding
    queries,      \* the SymbolQuery objects constructed so far
    blocks,       \* the block() calls whose callback is running, innermost last
    events,       \* the events published by the last call, in order
    last,         \* the last call: its name, arguments and outcome
    steps,        \* number of calls the callers still make
    checks        \* the nbtdoc checker: the running entry() calls, innermost last

vars == <<symbols, maps, global, stackObjs, stacks, isUriBinding, queries, blocks, events, last, steps,
          checks>>

----------------------------------------------------------------------------
\* Ordered dictionaries (JavaScript objects used as maps).

Keys(d) == [i \in 1..Len(d) |-> d[i].key]
Has(d, k) == \E i \in 1..Len(d) : d[i].key = k
Get(d, k) == IF Has(d, k) THEN d[CHOOSE i \in 1..Len(d) : d[i].key = k].val ELSE Null
Put(d, k, v) ==
    IF Has(d, k)
    THEN [i \in 1..Len(d) |-> IF d[i].key = k THEN [key |-> k, val |-> v] ELSE d[i]]
    ELSE Append(d, [key |-> k, val |-> v])
Del(d, k) == SelectSeq(d, LAMBDA e : e.key # k)

\* The store: everything a call of SymbolUtil can read or write, plus the
\* return value (ret) and the thrown flag of the call in progress.
Store ==
    [symbols |-> symbols, maps |-> maps, global |-> global, stackObjs |-> stackObjs,
     stacks |-> stacks, isUriBinding |-> isUriBinding, events |-> <<>>,
     threw |-> FALSE, ret |-> Null]

NoLocations == [t \in UsageTypeSet |-> <<>>]

\* All usage locations of a symbol, of every usage type.
AllLocations(symbol) ==
    symbol.locs["declaration"] \o symbol.locs["definition"] \o symbol.locs["implementation"]
        \o symbol.locs["reference"] \o symbol.locs["typeDefinition"]

SetSymbol(st, s, symbol) == [st EXCEPT !.symbols[s] = symbol]

----------------------------------------------------------------------------
\* Events and the subscribers the constructor installs. inMap and seen are no
\* fields of the event: see Published.

SymbolEvent(type, map, symbol) ==
    [symbol |-> symbol, type |-> type, map |-> map, target |-> Null, usage |-> Undefined,
     inMap |-> FALSE, seen |-> Null]
AliasEvent(type, map, symbol, target) ==
    [symbol |-> symbol, type |-> type, map |-> map, target |-> target, usage |-> Undefined,
     inMap |-> FALSE, seen |-> Null]
SymbolLocationEvent(type, map, symbol, usage) ==
    [symbol |-> symbol, type |-> type, map |-> map, target |-> Null, usage |-> usage,
     inMap |-> FALSE, seen |-> Null]

\* The event as its subscribers receive it: inMap records what a subscriber
\* finds when it reads the event's map, whether the map holds the event's
\* symbol under the symbol's identifier, and seen what it finds when it reads
\* the event's symbol.
Published(st, ev) ==
    [ev EXCEPT !.inMap = (Get(st.maps[ev.map], st.symbols[ev.symbol].identifier) = ev.symbol),
               !.seen = st.symbols[ev.symbol]]

\* this.on('symbolAliasCreated', ...): target.aliasAmount ??= 0; target.aliasAmount++
OnSymbolAliasCreated(st, ev) ==
    LET t == st.symbols[ev.target]
        n == IF t.hasAliasAmount THEN t.aliasAmount ELSE 0
    IN SetSymbol(st, ev.target, [t EXCEPT !.hasAliasAmount = TRUE, !.aliasAmount = n + 1])

\* this.on('symbolAliasRemoved', ...): target.aliasAmount-- when it is defined
OnSymbolAliasRemoved(st, ev) ==
    LET t == st.symbols[ev.target]
    IN IF t.hasAliasAmount
       THEN SetSymbol(st, ev.target, [t EXCEPT !.aliasAmount = t.aliasAmount - 1])
       ELSE st

RECURSIVE trigger(_, _)

\* this.on('symbolRemoved', ...): a removed alias publishes symbolAliasRemoved
OnSymbolRemoved(st, ev) ==
    IF st.symbols[ev.symbol].aliasOf # Null
    THEN trigger(st, AliasEvent("symbolAliasRemoved", ev.map, ev.symbol, st.symbols[ev.symbol].aliasOf))
    ELSE st

\* EventPublisherImpl.trigger: the subscribers of the event run synchronously,
\* before trigger returns.
Dispatch(st, ev) ==
    CASE ev.type = "symbolRemoved" -> OnSymbolRemoved(st, ev)
      [] ev.type = "symbolAliasCreated" -> OnSymbolAliasCreated(st, ev)
      [] ev.type = "symbolAliasRemoved" -> OnSymbolAliasRemoved(st, ev)
      [] OTHER -> st

\* SymbolUtil.trigger: publish the event (recorded in st.events).
trigger(st, ev) == Dispatch([st EXCEPT !.events = Append(@, Published(st, ev))], ev)

----------------------------------------------------------------------------
\* Lookup.

LookupResult(parentSymbol, map, symbol) ==
    [symbol |-> symbol, map |-> map, parentSymbol |-> parentSymbol]

\* map?.[identifier] ?? null
MapGet(st, map, identifier) == IF map = Null THEN Null ELSE Get(st.maps[map], identifier)

RECURSIVE lookupTableFrom(_, _, _, _, _)
\* The round of the loop of lookupTable without its test of i: a missing segment
\* ends the loop with the parentSymbol and the map reached.
lookupTableStepKeepingParent(st, path, i, parentSymbol, map, symbol) ==
    IF symbol = Null
    THEN LookupResult(parentSymbol, map, Null)
    ELSE IF i = Len(path)
         THEN LookupResult(parentSymbol, map, symbol)
         ELSE lookupTableFrom(st, path, i + 1, symbol, st.symbols[symbol].members)

\* One round of the loop of lookupTable, symbol being map?.[path[i]] ?? null.
lookupTableStep(st, path, i, parentSymbol, map, symbol) ==
    IF symbol = Null
    THEN IF i # Len(path)
         THEN LookupResult(Null, Null, Null)
         ELSE LookupResult(parentSymbol, map, Null)
    ELSE IF i = Len(path)
         THEN LookupResult(parentSymbol, map, symbol)
         ELSE lookupTableFrom(st, path, i + 1, symbol, st.symbols[symbol].members)

\* The loop of lookupTable from segment i on.
lookupTableFrom(st, path, i, parentSymbol, map) ==
    lookupTableStep(st, path, i, parentSymbol, map, MapGet(st, map, path[i]))

\* lookupTable(table, category, path)
lookupTable(st, table, category, path) ==
    IF path = <<>>
    THEN LookupResult(Null, Get(table, category), Null)
    ELSE lookupTableFrom(st, path, 1, Null, Get(table, category))

RECURSIVE lookupTablesFrom(_, _, _, _, _, _, _)
\* One round of the loop of lookupTables, result being the lookup in tables[i].
lookupTablesStep(st, tables, category, path, i, parentSymbol, map, result) ==
    IF result.symbol # Null
    THEN result
    ELSE IF parentSymbol = Null /\ map = Null /\ (result.parentSymbol # Null \/ result.map # Null)
         THEN lookupTablesFrom(st, tables, category, path, i - 1, result.parentSymbol, result.map)
         ELSE lookupTablesFrom(st, tables, category, path, i - 1, parentSymbol, map)

\* The loop of lookupTables from table i down to table 1.
lookupTablesFrom(st, tables, category, path, i, parentSymbol, map) ==
    IF i = 0
    THEN LookupResult(parentSymbol, map, Null)
    ELSE lookupTablesStep(st, tables, category, path, i, parentSymbol, map,
                          lookupTable(st, tables[i], category, path))

\* lookupTables(tables, category, path)
lookupTables(st, tables, category, path) ==
    lookupTablesFrom(st, tables, category, path, Len(tables), Null, Null)

\* getStack(uri): the document's stack, created with one empty frame if absent.
\* Returns the store; the stack is st.stacks[uri] afterwards.
getStack(st, uri) ==
    IF st.stacks[uri] # Null
    THEN st
    ELSE [st EXCEPT !.stackObjs = Append(@, << <<>> >>),
                    !.stacks[uri] = Len(st.stackObjs) + 1]

\* lookup searching the global table only, whatever the uri.
lookupGlobalOnly(st, category, path, uri) ==
    lookupTables(st, <<st.global>>, category, path)

\* lookup(category, path, uri) once getStack(uri) has run; uri = Undefined is
\* the call without a uri.
lookup(st, category, path, uri) ==
    lookupTables(st,
                 <<st.global>> \o (IF uri = Undefined THEN <<>> ELSE st.stackObjs[st.stacks[uri]]),
                 category, path)

\* isVisible(symbol, uri)
isVisible(st, symbol, uri) == st.symbols[symbol].visibility # Restricted

----------------------------------------------------------------------------
\* Tables: a reference to a SymbolTable is the global table (stack = Null) or
\* a frame of a stack object.

GlobalRef == [stack |-> Null, frame |-> 0]
FrameRef(stack, frame) == [stack |-> stack, frame |-> frame]

ReadTable(st, ref) ==
    IF ref.stack = Null THEN st.global ELSE st.stackObjs[ref.stack][ref.frame]
WriteTable(st, ref, table) ==
    IF ref.stack = Null
    THEN [st EXCEPT !.global = table]
    ELSE [st EXCEPT !.stackObjs[ref.stack][ref.frame] = table]

\* getTable(stack, global, visibility)
getTable(st, stack, visibility) ==
    CASE visibility = Block -> FrameRef(stack, Len(st.stackObjs[stack]))
      [] visibility = File -> FrameRef(stack, 1)
      [] OTHER -> GlobalRef

----------------------------------------------------------------------------
\* Trimming and partial invalidation.

\* The condition of trimMap under which a symbol is deleted.
isTrimmable(symbol) ==
    /\ \A t \in UsageTypeSet : Len(symbol.locs[t]) = 0
    /\ (~symbol.hasAliasAmount \/ symbol.aliasAmount = 0)

\* trimMap, the deleted symbol s being an alias: symbol.relations.aliasOf.aliasAmount--
releaseAliasTarget(st, s) ==
    IF st.symbols[s].aliasOf # Null /\ st.symbols[st.symbols[s].aliasOf].hasAliasAmount
    THEN [st EXCEPT !.symbols[st.symbols[s].aliasOf].aliasAmount = @ - 1]
    ELSE st

\* trimMap: delete map[identifier], then publish symbolRemoved
deleteSymbol(st, map, identifier, s) ==
    trigger([st EXCEPT !.maps[map] = Del(@, identifier)], SymbolEvent("symbolRemoved", map, s))

\* trimMap: delete symbol.members when trimming has emptied it
deleteEmptyMembers(st, s) ==
    IF st.maps[st.symbols[s].members] = <<>>
    THEN [st EXCEPT !.symbols[s].members = Null]
    ELSE st

RECURSIVE trimMap(_, _)

\* The body of the loop of trimMap for the symbol s = map[identifier].
trimSymbol(st, map, identifier, s) ==
    IF isTrimmable(st.symbols[s])
    THEN deleteSymbol(releaseAliasTarget(st, s), map, identifier, s)
    ELSE IF st.symbols[s].members # Null
         THEN deleteEmptyMembers(trimMap(st, st.symbols[s].members), s)
         ELSE st

RECURSIVE trimMapKeys(_, _, _)
\* The loop of trimMap over the keys the map had when the loop started.
trimMapKeys(st, map, keys) ==
    IF keys = <<>>
    THEN st
    ELSE trimMapKeys(trimSymbol(st, map, Head(keys), Get(st.maps[map], Head(keys))), map, Tail(keys))

\* trimMap(map, path); the path only labels the events and is left out.
trimMap(st, map) ==
    IF map = Null THEN st ELSE trimMapKeys(st, map, Keys(st.maps[map]))

\* trim: delete table[category] when trimming has emptied its map
deleteEmptyCategory(st, ref, category, map) ==
    IF st.maps[map] = <<>>
    THEN WriteTable(st, ref, Del(ReadTable(st, ref), category))
    ELSE st

\* The body of the loop of trim for one category.
trimCategory(st, ref, category, map) ==
    deleteEmptyCategory(trimMap(st, map), ref, category, map)

RECURSIVE trimCategories(_, _, _)
\* The loop of trim over the categories of the table.
trimCategories(st, ref, categories) ==
    IF categories = <<>>
    THEN st
    ELSE trimCategories(
             trimCategory(st, ref, Head(categories), Get(ReadTable(st, ref), Head(categories))),
             ref, Tail(categories))

\* trim(table)
trim(st, ref) == trimCategories(st, ref, Keys(ReadTable(st, ref)))

\* The predicates callers pass to removeLocations.
UriPredicate(uri) == [uri |-> uri, kind |-> "uri"]            \* loc => loc.uri === uri
UriBoundPredicate == [uri |-> Undefined, kind |-> "isUriBound"] \* l => l.isUriBound
ClearPredicate(uri) == [uri |-> uri, kind |-> "clear"]        \* loc => !loc.isUriBound && loc.uri === uri

Matches(pred, location) ==
    CASE pred.kind = "uri" -> location.uri = pred.uri
      [] pred.kind = "isUriBound" -> location.isUriBound
      [] OTHER -> ~location.isUriBound /\ location.uri = pred.uri

\* removeLocationsFromMap for one usage type of one symbol: result keeps the
\* locations that do not match, and symbolLocationRemoved is published for each
\* of the others.
removeLocationsOfType(st, map, s, type, old, result) ==
    [st EXCEPT !.symbols[s].locs[type] = result,
               !.events = @ \o [j \in 1..(Len(old) - Len(result)) |->
                                  Published(st, SymbolLocationEvent("symbolLocationRemoved", map, s, type))]]

RECURSIVE removeLocationsOfTypes(_, _, _, _, _)
\* The loop over SymbolUsageTypes for one symbol, from type index i on.
removeLocationsOfTypes(st, map, s, pred, i) ==
    IF i > Len(SymbolUsageTypes)
    THEN st
    ELSE removeLocationsOfTypes(
             removeLocationsOfType(st, map, s, SymbolUsageTypes[i],
                                   st.symbols[s].locs[SymbolUsageTypes[i]],
                                   SelectSeq(st.symbols[s].locs[SymbolUsageTypes[i]],
                                             LAMBDA l : ~Matches(pred, l))),
             map, s, pred, i + 1)

RECURSIVE removeLocationsFromMap(_, _, _)

\* The body of the loop of removeLocationsFromMap for the symbol s.
removeLocationsFromSymbol(st, map, s, pred) ==
    removeLocationsFromMap(removeLocationsOfTypes(st, map, s, pred, 1), st.symbols[s].members, pred)

RECURSIVE removeLocationsFromKeys(_, _, _, _)
\* The loop of removeLocationsFromMap over the keys of the map.
removeLocationsFromKeys(st, map, pred, keys) ==
    IF keys = <<>>
    THEN st
    ELSE removeLocationsFromKeys(
             removeLocationsFromSymbol(st, map, Get(st.maps[map], Head(keys)), pred),
             map, pred, Tail(keys))

\* removeLocationsFromMap(map, predicate, path)
removeLocationsFromMap(st, map, pred) ==
    IF map = Null THEN st ELSE removeLocationsFromKeys(st, map, pred, Keys(st.maps[map]))

RECURSIVE removeLocationsFromCategories(_, _, _, _)
\* The loop of removeLocations over the categories of the table.
removeLocationsFromCategories(st, ref, pred, categories) ==
    IF categories = <<>>
    THEN st
    ELSE removeLocationsFromCategories(
             removeLocationsFromMap(st, Get(ReadTable(st, ref), Head(categories)), pred),
             ref, pred, Tail(categories))

\* removeLocations(table, predicate)
removeLocations(st, ref, pred) ==
    trim(removeLocationsFromCategories(st, ref, pred, Keys(ReadTable(st, ref))), ref)

\* clear(uri) without this.stacks.delete(uri).
clearKeepingStack(st, uri) == removeLocations(st, GlobalRef, ClearPredicate(uri))

\* clear(uri)
clear(st, uri) ==
    removeLocations([st EXCEPT !.stacks[uri] = Null], GlobalRef, ClearPredicate(uri))

----------------------------------------------------------------------------
\* Entering and amending symbols.

\* A SymbolAddition: data (desc, subcategory, visibility, relations.aliasOf,
\* visibilityRestriction; Undefined / Null / <<>> when absent) and usage
\* (Undefined when absent, "untyped" for a usage without a type, else the type).
SymbolAddition(desc, subcategory, visibility, aliasOf, visibilityRestriction, usage) ==
    [usage |-> usage, aliasOf |-> aliasOf, visibility |-> visibility, desc |-> desc,
     subcategory |-> subcategory, visibilityRestriction |-> visibilityRestriction]

\* SymbolLocation.create(doc, range, fullRange, isUriBinding, ...): the queries of
\* the model are built from bare URIs, so every range is the degenerate [0, 0).
SymbolLocation(uri, isUriBound) == [uri |-> uri, isUriBound |-> isUriBound]

\* addition.type ?? 'reference'
UsageType(usage) == IF usage = "untyped" THEN "reference" ELSE usage

\* amendSymbolUsage(map, path, symbol, addition, doc, isUriBinding)
amendSymbolUsage(st, map, s, usage, uri, uriBinding) ==
    IF usage = Undefined
    THEN st
    ELSE trigger([st EXCEPT !.symbols[s].locs[UsageType(usage)] =
                                Append(@, SymbolLocation(uri, uriBinding))],
                 SymbolLocationEvent("symbolLocationCreated", map, s, UsageType(usage)))

\* The object literal of createSymbol: { category, identifier, ...enterable.data }
NewSymbol(category, identifier, data) ==
    [locs |-> NoLocations, identifier |-> identifier, hasAliasAmount |-> FALSE,
     aliasAmount |-> 0, aliasOf |-> data.aliasOf, members |-> Null,
     category |-> category, visibility |-> data.visibility,
     desc |-> data.desc, subcategory |-> data.subcategory,
     visibilityRestriction |-> data.visibilityRestriction]

\* createSymbol(category, map, path, identifier, enterable, doc, isUriBinding):
\* the new symbol is st.ret; it is not yet in the map.
createSymbol(st, category, map, identifier, enterable, uri, uriBinding) ==
    [amendSymbolUsage([st EXCEPT !.symbols = Append(@, NewSymbol(category, identifier, enterable))],
                      map, Len(st.symbols) + 1, enterable.usage, uri, uriBinding)
        EXCEPT !.ret = Len(st.symbols) + 1]

\* inGlobalTable of amendSymbolMetadata
inGlobalTable(v) == v = Undefined \/ v = Public \/ v = Restricted

\* amendSymbolMetadata: if (addition.desc !== undefined) symbol.desc = addition.desc
amendDesc(st, s, addition) ==
    IF addition.desc # Undefined
    THEN [st EXCEPT !.symbols[s].desc = addition.desc]
    ELSE st

\* amendSymbolMetadata: symbolAliasRemoved for the old target, if any, then
\* symbolAliasCreated for the new one.
publishAliasChange(st, map, s, old, new) ==
    trigger(IF old # Null THEN trigger(st, AliasEvent("symbolAliasRemoved", map, s, old)) ELSE st,
            AliasEvent("symbolAliasCreated", map, s, new))

\* amendSymbolMetadata: the loop over addition.relations
amendRelations(st, map, s, addition) ==
    IF addition.aliasOf = Null
    THEN st
    ELSE [(IF st.symbols[s].aliasOf # addition.aliasOf
           THEN publishAliasChange(st, map, s, st.symbols[s].aliasOf, addition.aliasOf)
           ELSE st)
            EXCEPT !.symbols[s].aliasOf = addition.aliasOf]

\* amendSymbolMetadata: if (addition.subcategory !== undefined) ...
amendSubcategory(st, s, addition) ==
    IF addition.subcategory # Undefined
    THEN [st EXCEPT !.symbols[s].subcategory = addition.subcategory]
    ELSE st

\* amendSymbolMetadata: the visibility is set, or the change of tier throws.
amendVisibility(st, s, addition) ==
    IF addition.visibility = Undefined
    THEN st
    ELSE IF \/ st.symbols[s].visibility = addition.visibility
            \/ (inGlobalTable(st.symbols[s].visibility) /\ inGlobalTable(addition.visibility))
         THEN [st EXCEPT !.symbols[s].visibility = addition.visibility]
         ELSE [st EXCEPT !.threw = TRUE]

\* amendSymbolMetadata: if (addition.visibilityRestriction?.length) ...; not
\* reached when the visibility change has thrown.
amendVisibilityRestriction(st, s, addition) ==
    IF st.threw \/ Len(addition.visibilityRestriction) = 0
    THEN st
    ELSE [st EXCEPT !.symbols[s].visibilityRestriction = @ \o addition.visibilityRestriction]

\* amendSymbolMetadata(map, path, symbol, addition)
amendSymbolMetadata(st, map, s, addition) ==
    amendVisibilityRestriction(
        amendVisibility(
            amendSubcategory(
                amendRelations(amendDesc(st, s, addition), map, s, addition),
                s, addition),
            s, addition),
        s, addition)

\* The second statement of amendSymbol, not reached when the first has thrown.
amendSymbolUsageUnlessThrown(st, map, s, usage, uri, uriBinding) ==
    IF st.threw THEN st ELSE amendSymbolUsage(st, map, s, usage, uri, uriBinding)

\* amendSymbol(map, path, symbol, enterable, doc, isUriBinding)
amendSymbol(st, map, s, enterable, uri, uriBinding) ==
    amendSymbolUsageUnlessThrown(amendSymbolMetadata(st, map, s, enterable),
                                 map, s, enterable.usage, uri, uriBinding)

\* enterMap, the branch of an existing target: symbolAmended after amendSymbol.
publishAmended(st, map, target) ==
    IF st.threw
    THEN st
    ELSE [trigger(st, SymbolEvent("symbolAmended", map, target)) EXCEPT !.ret = target]

\* enterMap, the branch of a new symbol: map[identifier] = ans, then symbolCreated.
insertCreated(st, map, identifier) ==
    trigger([st EXCEPT !.maps[map] = Put(@, identifier, st.ret)],
            SymbolEvent("symbolCreated", map, st.ret))

\* enterMap without its amending branch: a symbol is created and inserted
\* whatever map[identifier] holds.
enterMapAlwaysCreates(st, map, category, identifier, addition, uri, uriBinding, target) ==
    insertCreated(createSymbol(st, category, map, identifier, addition, uri, uriBinding),
                  map, identifier)

\* enterMap with target = map[identifier].
enterMapTarget(st, map, category, identifier, addition, uri, uriBinding, target) ==
    IF target # Null
    THEN publishAmended(amendSymbol(st, map, target, addition, uri, uriBinding), map, target)
    ELSE insertCreated(createSymbol(st, category, map, identifier, addition, uri, uriBinding),
                       map, identifier)

\* enterMap(map, category, path, identifier, addition, doc, isUriBinding):
\* the created or amended symbol is st.ret.
enterMap(st, map, category, identifier, addition, uri, uriBinding) ==
    enterMapTarget(st, map, category, identifier, addition, uri, uriBinding,
                   Get(st.maps[map], identifier))

----------------------------------------------------------------------------
\* SymbolUtil.query and the SymbolQuery class.

\* A SymbolQuery object. createMap is the closure built by query(): "table"
\* (a top-level path: the table is chosen from the captured stack when enter
\* runs), "member" (the members of the captured parentSymbol) or "null".
\* fired and returned are the history of the object, not fields of the class:
\* the number of callbacks its if* and amend calls have invoked, and the number
\* of those that returned normally. parent is Null for the object query()
\* builds; for the object queryMember() builds it is the SymbolQuery whose
\* #symbol the closure () => this.#symbol!.members ??= {} reads when it runs.
SymbolQuery(category, path, uri, createMapKind, stack, parentSymbol, uriBinding, map, symbol) ==
    [isUriBinding |-> uriBinding, symbol |-> symbol, map |-> map, parentSymbol |-> parentSymbol,
     path |-> path, category |-> category, uri |-> uri, stack |-> stack,
     createMap |-> createMapKind, hasTriggeredIf |-> FALSE, fired |-> 0, returned |-> 0,
     parent |-> Null]

\* query() building every createMap as the one of a top-level path.
queryOfLookupInTable(st, uri, category, path, result, visible) ==
    [st |-> st,
     query |-> SymbolQuery(category, path, uri, "table", st.stacks[uri], result.parentSymbol,
                           st.isUriBinding,
                           IF visible THEN result.map ELSE Null,
                           IF visible THEN result.symbol ELSE Null)]

\* query(): the SymbolQuery built from the result of the lookup.
queryOfLookup(st, uri, category, path, result, visible) ==
    [st |-> st,
     query |-> SymbolQuery(category, path, uri,
                           IF Len(path) = 1 THEN "table"
                           ELSE IF result.parentSymbol # Null THEN "member" ELSE "null",
                           st.stacks[uri], result.parentSymbol, st.isUriBinding,
                           IF visible THEN result.map ELSE Null,
                           IF visible THEN result.symbol ELSE Null)]

\* query(): const visible = symbol ? SymbolUtil.isVisible(symbol, uri) : null
queryVisible(st, uri, category, path, result) ==
    queryOfLookup(st, uri, category, path, result,
                  IF result.symbol # Null THEN isVisible(st, result.symbol, uri) ELSE FALSE)

\* query(), after getStack(uri).
queryStack(st, uri, category, path) ==
    queryVisible(st, uri, category, path, lookup(st, category, path, uri))

\* query(doc, category, ...path): the store after getStack, and the query object.
query(st, uri, category, path) == queryStack(getStack(st, uri), uri, category, path)

\* container[key] ??= {} for a table: the map is st.ret.
tableMap(st, ref, category) ==
    IF Get(ReadTable(st, ref), category) # Null
    THEN [st EXCEPT !.ret = Get(ReadTable(st, ref), category)]
    ELSE [WriteTable([st EXCEPT !.maps = Append(@, <<>>)], ref,
                     Put(ReadTable(st, ref), category, Len(st.maps) + 1))
             EXCEPT !.ret = Len(st.maps) + 1]

\* parentSymbol.members ??= {}: the map is st.ret.
membersMap(st, parentSymbol) ==
    IF st.symbols[parentSymbol].members # Null
    THEN [st EXCEPT !.ret = st.symbols[parentSymbol].members]
    ELSE [st EXCEPT !.maps = Append(@, <<>>), !.symbols[parentSymbol].members = Len(st.maps) + 1,
                    !.ret = Len(st.maps) + 1]

\* this.#createMap(addition): the map is st.ret, created in its container if absent.
createMap(st, q, addition) ==
    IF q.createMap = "table"
    THEN tableMap(st, getTable(st, q.stack, addition.visibility), q.category)
    ELSE membersMap(st, q.parentSymbol)

\* enter: this.#symbol = ... is not reached when enterMap throws.
entered(st, q, map) ==
    [st |-> st,
     query |-> IF st.threw THEN [q EXCEPT !.map = map]
               ELSE [q EXCEPT !.map = map, !.symbol = st.ret]]

\* enter, once this.#map is set (st.ret).
enterInto(st, q, addition) ==
    entered(enterMap(st, st.ret, q.category, q.path[Len(q.path)], addition, q.uri, q.isUriBinding),
            q, st.ret)

\* SymbolQuery.enter(addition): the store and the query object afterwards.
enter(st, q, addition) ==
    IF q.createMap = "null"
    THEN [st |-> [st EXCEPT !.threw = TRUE], query |-> q]
    ELSE enterInto(IF q.map = Null THEN createMap(st, q, addition) ELSE [st EXCEPT !.ret = q.map],
                   q, addition)

\* isDeclared, isDefined, isImplemented, isReferenced, isTypeDefined
HasLocations(st, s, type) == Len(st.symbols[s].locs[type]) > 0
\* isDeclared reading the definition list only.
isDeclaredByDefinitionOnly(st, s) == s # Null /\ HasLocations(st, s, "definition")
isDeclared(st, s) == s # Null /\ (HasLocations(st, s, "declaration") \/ HasLocations(st, s, "definition"))
isDefined(st, s) ==
    s # Null /\ (\/ HasLocations(st, s, "definition")
                 \/ (HasLocations(st, s, "definition") /\ HasLocations(st, s, "implementation")))
isImplemented(st, s) == s # Null /\ (HasLocations(st, s, "implementation") \/ HasLocations(st, s, "definition"))
isReferenced(st, s) == s # Null /\ HasLocations(st, s, "reference")
isTypeDefined(st, s) == s # Null /\ HasLocations(st, s, "typeDefinition")

\* A predicate that holds of every symbol and of null.
predicateAlways(st, method, s) == TRUE

\* The predicate each if-method passes to SymbolQuery.if.
IfMethods == {"ifUnknown", "ifKnown", "ifDeclared", "ifDefined", "ifImplemented", "ifReferenced", "ifTypeDefined"}
predicate(st, method, s) ==
    CASE method = "ifUnknown" -> s = Null
      [] method = "ifKnown" -> s # Null
      [] method = "ifDeclared" -> isDeclared(st, s)
      [] method = "ifDefined" -> isDefined(st, s)
      [] method = "ifImplemented" -> isImplemented(st, s)
      [] method = "ifReferenced" -> isReferenced(st, s)
      [] OTHER -> isTypeDefined(st, s)

\* The callbacks callers pass: one that only reports (no call into the store)
\* and one that enters an addition through the query, as amend and elseEnter do.
NoAddition == SymbolAddition(Undefined, Undefined, Undefined, Null, <<>>, Undefined)
Report == [kind |-> "report", addition |-> NoAddition]
EnterCallback(addition) == [kind |-> "enter", addition |-> addition]

\* fn.call(this, this.#symbol)
call(st, q, fn) ==
    IF fn.kind = "enter"
    THEN enter(st, q, fn.addition)
    ELSE [st |-> st, query |-> q]

\* if: this.#hasTriggeredIf = true, not reached when fn has thrown.
triggered(r) ==
    [st |-> r.st,
     query |-> IF r.st.threw THEN r.query ELSE [r.query EXCEPT !.hasTriggeredIf = TRUE],
     called |-> 1]

\* SymbolQuery.if guarded by #hasTriggeredIf as else is: no callback is invoked
\* once one has returned.
ifUnlessTriggered(st, q, method, fn) ==
    IF ~q.hasTriggeredIf /\ predicate(st, method, q.symbol)
    THEN triggered(call(st, q, fn))
    ELSE [st |-> st, query |-> q, called |-> 0]

\* SymbolQuery.if(predicate, fn): the store, the query and whether fn was invoked.
if(st, q, method, fn) ==
    IF predicate(st, method, q.symbol)
    THEN triggered(call(st, q, fn))
    ELSE [st |-> st, query |-> q, called |-> 0]

\* else: fn has been invoked.
invoked(r) == [st |-> r.st, query |-> r.query, called |-> 1]

\* SymbolQuery.else without its test of #hasTriggeredIf.
elseAlways(st, q, fn) == invoked(call(st, q, fn))

\* SymbolQuery.else(fn)
else(st, q, fn) ==
    IF ~q.hasTriggeredIf
    THEN invoked(call(st, q, fn))
    ELSE [st |-> st, query |-> q, called |-> 0]

RECURSIVE resolveAliasFrom(_, _, _)
\* SymbolUtil.resolveAlias(symbol), for a chain of at most n links.
resolveAliasFrom(st, s, n) ==
    IF st.symbols[s].aliasOf # Null /\ n > 0
    THEN resolveAliasFrom(st, st.symbols[s].aliasOf, n - 1)
    ELSE s

\* resolveAlias with a guard that ends the recursion on any chain.
AliasChainAlwaysEnds(st, s) == TRUE

\* resolveAlias following one link only.
resolveAliasOneLink(st, s) ==
    IF st.symbols[s].aliasOf # Null THEN st.symbols[s].aliasOf ELSE s

\* The recursion of resolveAlias ends: the chain from s reaches a symbol without aliasOf.
AliasChainEnds(st, s) ==
    st.symbols[resolveAliasFrom(st, s, Len(st.symbols))].aliasOf = Null

\* SymbolUtil.resolveAlias(symbol)
resolveAlias(st, s) == resolveAliasFrom(st, s, Len(st.symbols))

\* SymbolUtil.filterVisibleSymbols(uri, map = {}): the entries of the map whose
\* symbol is visible, in the order of the map.
filterVisibleSymbols(st, uri, map) ==
    IF map = Null THEN <<>> ELSE SelectSeq(st.maps[map], LAMBDA e : isVisible(st, e.val, uri))

\* get visibleMembers(): filterVisibleSymbols(this.#doc.uri, this.#symbol?.members)
visibleMembers(st, q) ==
    filterVisibleSymbols(st, q.uri, IF q.symbol = Null THEN Null ELSE st.symbols[q.symbol].members)

\* getVisibleSymbols(uri, category), the map being lookup(category, [], uri).map.
visibleSymbolsOfMap(st, uri, map) ==
    IF map = Null THEN <<>> ELSE SelectSeq(st.maps[map], LAMBDA e : isVisible(st, e.val, uri))

\* getVisibleSymbols(uri, category) once getStack(uri) has run; uri = Undefined
\* is the call without a uri.
getVisibleSymbols(st, uri, category) ==
    visibleSymbolsOfMap(st, uri, lookup(st, category, <<>>, uri).map)

\* queryMember handing out a query whose createMap is the one of a top-level
\* path of the document.
memberQueryInTable(st, q, p, identifier, memberMap) ==
    [SymbolQuery(q.category, q.path \o <<identifier>>, q.uri, "table", st.stacks[q.uri], q.symbol,
                 q.isUriBinding, memberMap, MapGet(st, memberMap, identifier))
        EXCEPT !.parent = p]

\* queryMember: the SymbolQuery handed to fn. Its symbol is
\* memberMap?.[identifier] ?? null, whatever its visibility, and its
\* isUriBinding is the one of the query it is made from; p is that query.
memberQueryResult(st, q, p, identifier, memberMap) ==
    [SymbolQuery(q.category, q.path \o <<identifier>>, q.uri, "member", Null, q.symbol,
                 q.isUriBinding, memberMap, MapGet(st, memberMap, identifier))
        EXCEPT !.parent = p]

\* queryMember(identifier, fn) on the query object q, the p-th constructed:
\* the store, the member query (q itself when none is built) and whether fn
\* was invoked.
queryMember(st, q, p, identifier, fn) ==
    IF q.symbol = Null
    THEN [st |-> [st EXCEPT !.threw = TRUE], query |-> q, called |-> 0]
    ELSE invoked(call(st, memberQueryResult(st, q, p, identifier, st.symbols[q.symbol].members), fn))

----------------------------------------------------------------------------
\* What is present in the store.

RECURSIVE SymbolsOfMap(_, _)
\* The symbols held by a map, at any member depth.
SymbolsOfMap(st, map) ==
    IF map = Null
    THEN {}
    ELSE UNION {{st.maps[map][i].val} \cup SymbolsOfMap(st, st.symbols[st.maps[map][i].val].members)
                : i \in 1..Len(st.maps[map])}

SymbolsOfTable(st, table) == UNION {SymbolsOfMap(st, table[i].val) : i \in 1..Len(table)}

\* The symbols of the stack of each document that has one.
SymbolsOfStacks(st) ==
    UNION {SymbolsOfTable(st, st.stackObjs[st.stacks[u]][f])
           : <<u, f>> \in {<<u, f>> \in Uris \X (1..Len(st.stackObjs)+1) :
                            st.stacks[u] # Null /\ f <= Len(st.stackObjs[st.stacks[u]])}}

\* Every symbol present in the global table or in a document's stack.
PresentSymbols(st) == SymbolsOfTable(st, st.global) \cup SymbolsOfStacks(st)

----------------------------------------------------------------------------
\* The state machine: one action per call of the API.

\* The record kept of the last call.
Call(op, uri, path, addition, q, method, threw, called, symbol, chain, tracked) ==
    [threw |-> threw, symbol |-> symbol, path |-> path, uri |-> uri, addition |-> addition,
     q |-> q, method |-> method, called |-> called, op |-> op, chain |-> chain,
     tracked |-> tracked]

\* No check is running, and none has been started in the check session.
NoChecks == [stack |-> <<>>, started |-> [u \in Uris |-> 0]]

\* The state after new SymbolUtil({}), with n calls to come.
Init(n) ==
    /\ symbols = <<>>
    /\ maps = <<>>
    /\ global = <<>>
    /\ stackObjs = <<>>
    /\ stacks = [u \in Uris |-> Null]
    /\ isUriBinding = FALSE
    /\ queries = <<>>
    /\ blocks = <<>>
    /\ events = <<>>
    /\ last = Call("init", Undefined, <<>>, NoAddition, Null, Undefined, FALSE, 0, Null, 0, {})
    /\ steps = n
    /\ checks = NoChecks

\* The store as the call leaves it.
Commit(st) ==
    /\ symbols' = st.symbols
    /\ maps' = st.maps
    /\ global' = st.global
    /\ stackObjs' = st.stackObjs
    /\ stacks' = st.stacks
    /\ isUriBinding' = st.isUriBinding
    /\ events' = st.events

\* One call into the symbol store by a caller other than the nbtdoc checker.
Step ==
    /\ steps > 0
    /\ steps' = steps - 1
    /\ UNCHANGED checks

\* The symbols an addition may name as relations.aliasOf: any Symbol object.
AliasTargets == {Null} \cup (1..Len(symbols))

\* The query object q as a call on it finds it: the closure of a member query
\* reads the #symbol its parent query holds now.
BoundQuery(q) ==
    IF queries[q].parent = Null
    THEN queries[q]
    ELSE [queries[q] EXCEPT !.parentSymbol = queries[queries[q].parent].symbol]

\* The outcome r = [st, query, called] of a call on the query object q.
QueryCallDone(op, q, addition, method, r) ==
    /\ Commit(r.st)
    /\ queries' = [queries EXCEPT ![q] =
                      IF op \in {"if", "amend"} /\ r.called = 1
                      THEN [r.query EXCEPT !.fired = @ + 1,
                                           !.returned = IF r.st.threw THEN @ ELSE @ + 1]
                      ELSE r.query]
    /\ last' = Call(op, queries[q].uri, queries[q].path, addition, q, method,
                    r.st.threw, r.called, r.query.symbol, 0, {})
    /\ UNCHANGED blocks

\* The outcome r = [st, query] of a call that constructs a query object.
QueryDone(uri, path, r) ==
    /\ Commit(r.st)
    /\ queries' = Append(queries, r.query)
    /\ last' = Call("query", uri, path, NoAddition, Len(queries) + 1, Undefined, FALSE, 0,
                    r.query.symbol, 0, {})
    /\ UNCHANGED blocks

\* const q = symbols.query(uri, category, ...path)
Query(uri, category, path) ==
    /\ Step
    /\ QueryDone(uri, path, query(Store, uri, category, path))

NotCalled(r) == [st |-> r.st, query |-> r.query, called |-> 0]

\* q.enter(addition)
Enter(q, addition) ==
    /\ Step
    /\ QueryCallDone("enter", q, addition, Undefined, NotCalled(enter(Store, BoundQuery(q), addition)))

\* q.ifUnknown(fn), q.ifKnown(fn), q.ifDeclared(fn), ...
If(q, method, fn) ==
    /\ Step
    /\ QueryCallDone("if", q, fn.addition, method, if(Store, BoundQuery(q), method, fn))

\* q.amend(addition): this.ifKnown(() => this.enter(addition))
Amend(q, addition) ==
    /\ Step
    /\ QueryCallDone("amend", q, addition, "ifKnown",
                     if(Store, BoundQuery(q), "ifKnown", EnterCallback(addition)))

\* q.else(fn)
Else(q, fn) ==
    /\ Step
    /\ QueryCallDone("else", q, fn.addition, Undefined, else(Store, BoundQuery(q), fn))

\* q.elseEnter(addition): this.else(() => this.enter(addition))
ElseEnter(q, addition) ==
    /\ Step
    /\ QueryCallDone("elseEnter", q, addition, Undefined,
                     else(Store, BoundQuery(q), EnterCallback(addition)))

\* SymbolQuery.resolveAlias(): the query afterwards.
resolveAliasOfQuery(st, q) ==
    IF q.symbol # Null THEN [q EXCEPT !.symbol = resolveAlias(st, q.symbol)] ELSE q

\* q.resolveAlias(). On an alias chain that does not end the recursion of
\* SymbolUtil.resolveAlias has no last call: the engine throws its RangeError
\* when the call stack is exhausted, before #symbol is assigned (an engine that
\* reuses the frame of a tail call never returns, which is no step at all).
ResolveAlias(q) ==
    /\ Step
    /\ QueryCallDone("resolveAlias", q, NoAddition, Undefined,
                     IF queries[q].symbol # Null /\ ~AliasChainEnds(Store, queries[q].symbol)
                     THEN [st |-> [Store EXCEPT !.threw = TRUE], query |-> queries[q], called |-> 0]
                     ELSE [st |-> Store, query |-> resolveAliasOfQuery(Store, queries[q]),
                           called |-> 0])

\* q.elseResolveAlias(): this.else(() => this.resolveAlias())
ElseResolveAlias(q) ==
    /\ Step
    /\ (~queries[q].hasTriggeredIf /\ queries[q].symbol # Null)
           => AliasChainEnds(Store, queries[q].symbol)
    /\ QueryCallDone("elseResolveAlias", q, NoAddition, Undefined,
                     IF queries[q].hasTriggeredIf
                     THEN [st |-> Store, query |-> queries[q], called |-> 0]
                     ELSE [st |-> Store, query |-> resolveAliasOfQuery(Store, queries[q]), called |-> 1])

\* The outcome of a chain of calls on a query object that is not kept.
ChainDone(op, uri, path, addition, method, st, called, symbol, chain) ==
    /\ Commit(st)
    /\ last' = Call(op, uri, path, addition, Null, method, st.threw, called, symbol, chain, {})
    /\ UNCHANGED <<queries, blocks>>

\* enter on the query object a call of query() has returned.
enterQuery(r, addition) == enter(r.st, r.query, addition)

QueryEnterDone(uri, path, addition, r) ==
    ChainDone("queryEnter", uri, path, addition, Undefined, r.st, 0, r.query.symbol,
              IF /\ last.op = "queryEnter" /\ ~last.threw /\ last.uri = uri
                 /\ last.path = path /\ last.addition = addition
              THEN last.chain + 1 ELSE 1)

\* symbols.query(uri, category, ...path).enter(addition). last.chain counts the
\* successive executions of the call with the same arguments.
QueryEnter(uri, category, path, addition) ==
    /\ Step
    /\ QueryEnterDone(uri, path, addition, enterQuery(query(Store, uri, category, path), addition))

\* .ifDeclared(report) on the query object a call of query() has returned.
ifDeclaredQuery(r) == if(r.st, r.query, "ifDeclared", Report)

\* .elseEnter(addition) after .ifDeclared(report): the store, the query and
\* whether report was invoked.
elseEnterAfter(r, addition) ==
    [st |-> else(r.st, r.query, EnterCallback(addition)).st,
     query |-> else(r.st, r.query, EnterCallback(addition)).query,
     called |-> r.called]

IfDeclaredElseEnterDone(uri, category, path, addition, r) ==
    ChainDone("ifDeclaredElseEnter", uri, path, addition, "ifDeclared", r.st, r.called, r.query.symbol,
              IF lookup(getStack(Store, uri), category, path, uri).symbol = Null
              THEN 1
              ELSE IF /\ last.op = "ifDeclaredElseEnter" /\ last.chain >= 1 /\ last.uri = uri
                      /\ last.path = path /\ last.addition = addition
                   THEN last.chain + 1
                   ELSE 0)

\* The chain of the hoisting checkers:
\* symbols.query(uri, category, ...path).ifDeclared(report).elseEnter(addition).
\* last.called is 1 when report ran; last.chain counts the successive identical
\* executions of the chain since one that found the path absent from every
\* table of the document's scope chain (0 when there was none).
IfDeclaredElseEnter(uri, category, path, addition) ==
    /\ Step
    /\ IfDeclaredElseEnterDone(uri, category, path, addition,
           elseEnterAfter(ifDeclaredQuery(query(Store, uri, category, path)), addition))

\* The symbols directly held by the maps of the global table.
TopLevelSymbols(st) ==
    UNION {{st.maps[st.global[i].val][j].val : j \in 1..Len(st.maps[st.global[i].val])}
           : i \in 1..Len(st.global)}

\* The top-level symbols of the global table that hold exactly two locations, one
\* of the given uri and one of another uri, and that no present symbol aliases.
TwoLocationSymbols(st, uri) ==
    {s \in TopLevelSymbols(st) :
        /\ Len(AllLocations(st.symbols[s])) = 2
        /\ \E i, j \in 1..2 : /\ AllLocations(st.symbols[s])[i].uri = uri
                              /\ AllLocations(st.symbols[s])[j].uri # uri
        /\ \A a \in PresentSymbols(st) : st.symbols[a].aliasOf # s}

\* symbols.removeLocations(symbols.global, predicate). last.tracked keeps the
\* symbols that held one location of the retracted uri and one of another uri.
RemoveLocations(pred) ==
    /\ Step
    /\ Commit(removeLocations(Store, GlobalRef, pred))
    /\ last' = Call("removeLocations", pred.uri, <<>>, NoAddition, Null, pred.kind, FALSE, 0, Null, 0,
                    IF pred.kind = "uri" THEN TwoLocationSymbols(Store, pred.uri) ELSE {})
    /\ UNCHANGED <<queries, blocks>>

\* symbols.trim(symbols.global)
Trim ==
    /\ Step
    /\ Commit(trim(Store, GlobalRef))
    /\ last' = Call("trim", Undefined, <<>>, NoAddition, Null, Undefined, FALSE, 0, Null, 0, {})
    /\ UNCHANGED <<queries, blocks>>

\* symbols.clear(uri)
Clear(uri) ==
    /\ Step
    /\ Commit(clear(Store, uri))
    /\ last' = Call("clear", uri, <<>>, NoAddition, Null, Undefined, FALSE, 0, Null, 0, {})
    /\ UNCHANGED <<queries, blocks>>

\* symbols.lookup(category, path, uri); last.tracked holds the result.
Lookup(uri, category, path) ==
    /\ Step
    /\ Commit(getStack(Store, uri))
    /\ last' = Call("lookup", uri, path, NoAddition, Null, Undefined, FALSE, 0,
                    lookup(getStack(Store, uri), category, path, uri).symbol, 0,
                    {lookup(getStack(Store, uri), category, path, uri)})
    /\ UNCHANGED <<queries, blocks>>

\* SymbolUtil.lookupTable(table, category, path) on the global table or on a
\* frame of a stack; last.tracked holds the table and the result.
LookupTable(ref, category, path) ==
    /\ Step
    /\ Commit(Store)
    /\ last' = Call("lookupTable", Undefined, path, NoAddition, Null, Undefined, FALSE, 0,
                    lookupTable(Store, ReadTable(Store, ref), category, path).symbol, 0,
                    {[table |-> ReadTable(Store, ref),
                      result |-> lookupTable(Store, ReadTable(Store, ref), category, path)]})
    /\ UNCHANGED <<queries, blocks>>

\* block: stack.push({})
pushFrame(st, uri) == [st EXCEPT !.stackObjs[st.stacks[uri]] = Append(@, <<>>)]

\* symbols.block(uri, callbackFn) up to the start of callbackFn: the frame is
\* pushed. The entry of blocks keeps the stack object the call holds, and the
\* uri and the depth of the stack when the call was made.
BlockBegin(uri) ==
    /\ Step
    /\ Commit(pushFrame(getStack(Store, uri), uri))
    /\ blocks' = Append(blocks, [uri |-> uri,
                                 stack |-> IF stacks[uri] # Null THEN stacks[uri] ELSE Len(stackObjs) + 1,
                                 depth |-> IF stacks[uri] # Null THEN Len(stackObjs[stacks[uri]]) ELSE 1])
    /\ last' = Call("blockBegin", uri, <<>>, NoAddition, Null, Undefined, FALSE, 0, Null, 0, {})
    /\ UNCHANGED queries

\* The catch and finally clauses of the innermost running block(), callbackFn
\* having returned or thrown: the error of callbackFn is thrown again, and the
\* finally clause throws instead of popping the last frame.
BlockExit(fnThrew) ==
    /\ Step
    /\ blocks # <<>>
    /\ IF Len(stackObjs[blocks[Len(blocks)].stack]) <= 1
       THEN /\ stackObjs' = stackObjs
            /\ last' = Call("blockEnd", blocks[Len(blocks)].uri, <<>>, NoAddition, Null, Undefined,
                            TRUE, 0, Null, 0, {})
       ELSE /\ stackObjs' = [stackObjs EXCEPT ![blocks[Len(blocks)].stack] = SubSeq(@, 1, Len(@) - 1)]
            /\ last' = Call("blockEnd", blocks[Len(blocks)].uri, <<>>, NoAddition, Null, Undefined,
                            fnThrew, 0, Null, 0, {})
    /\ blocks' = SubSeq(blocks, 1, Len(blocks) - 1)
    /\ events' = <<>>
    /\ UNCHANGED <<symbols, maps, global, stacks, isUriBinding, queries>>

\* The innermost running block() ends with callbackFn returning.
BlockEnd == BlockExit(FALSE)

\* The outcome r = [st, query, called] of q.queryMember(identifier, fn): the
\* member query, when one was built, is kept as the next query object.
QueryMemberDone(q, identifier, fn, r) ==
    /\ Commit(r.st)
    /\ queries' = IF r.called = 1 THEN Append(queries, r.query) ELSE queries
    /\ last' = Call("queryMember", queries[q].uri, queries[q].path \o <<identifier>>, fn.addition,
                    q, Undefined, r.st.threw, r.called,
                    IF r.called = 1 THEN r.query.symbol ELSE Null, 0, {})
    /\ UNCHANGED blocks

\* q.queryMember(identifier, fn)
QueryMember(q, identifier, fn) ==
    /\ Step
    /\ QueryMemberDone(q, identifier, fn, queryMember(Store, BoundQuery(q), q, identifier, fn))

\* uriBinding up to the start of fn: the flag is set and the URI-bound
\* locations are removed from the global table.
uriBindingStart(st) ==
    removeLocations([st EXCEPT !.isUriBinding = TRUE], GlobalRef, UriBoundPredicate)

\* uriBinding with a catch clause that throws the error again.
uriBindingEndRethrowing(st, fnThrew) ==
    [st EXCEPT !.isUriBinding = FALSE, !.threw = fnThrew, !.ret = 0]

\* The catch and finally clauses of uriBinding, fn having returned or thrown:
\* the error is logged and not thrown again, and the flag is reset.
uriBindingEnd(st, fnThrew) ==
    [st EXCEPT !.isUriBinding = FALSE, !.threw = FALSE, !.ret = IF fnThrew THEN 1 ELSE 0]

\* symbols.uriBinding(logger, fn) up to the start of fn.
UriBindingBegin ==
    /\ Step
    /\ Commit(uriBindingStart(Store))
    /\ last' = Call("uriBindingBegin", Undefined, <<>>, NoAddition, Null, Undefined, FALSE, 0, Null, 0, {})
    /\ UNCHANGED <<queries, blocks>>

\* The outcome of uriBinding: last.called is the number of calls of logger.error.
UriBindingDone(st) ==
    /\ Commit([st EXCEPT !.events = <<>>])
    /\ last' = Call("uriBindingEnd", Undefined, <<>>, NoAddition, Null, Undefined, st.threw, st.ret,
                    Null, 0, {})
    /\ UNCHANGED <<queries, blocks>>

\* The running uriBinding() ends, fn having returned or thrown.
UriBindingEnd(fnThrew) ==
    /\ Step
    /\ isUriBinding
    /\ UriBindingDone(uriBindingEnd(Store, fnThrew))

----------------------------------------------------------------------------
\* Specifications. Each draws the arguments of the calls from small sets and
\* bounds the number of calls of a run.

TopLevelPaths == {<<id>> : id \in Identifiers}
MemberPath == <<"a", "b">>

\* An addition with the given visibility, alias target and usage, and nothing else.
Addition(visibility, aliasOf, usage) ==
    SymbolAddition(Undefined, Undefined, visibility, aliasOf, <<>>, usage)

Visibilities == SymbolVisibility \cup {Undefined}

----------------------------------------------------------------------------
\* SpecAlias: symbols entered with and without an alias target, then retracted.

MaxAliasSteps == 3

NextAlias ==
    \/ \E uri \in Uris, path \in TopLevelPaths, t \in AliasTargets, u \in {Undefined, "reference"} :
           QueryEnter(uri, "nbtdoc", path, Addition(Undefined, t, u))
    \/ \E uri \in Uris : RemoveLocations(UriPredicate(uri))
    \/ \E uri \in Uris : Clear(uri)
    \/ Trim

SpecAlias == Init(MaxAliasSteps) /\ [][NextAlias]_vars

\* aliasAmount with undefined counted as 0
AliasAmount(s) == IF symbols[s].hasAliasAmount THEN symbols[s].aliasAmount ELSE 0
\* The present symbols whose relations.aliasOf is s.
AliasesOf(s) == {a \in PresentSymbols(Store) : symbols[a].aliasOf = s}

\* C1: in every reachable state, every present symbol's aliasAmount (undefined
\* counted as 0) equals the number of present symbols whose relations.aliasOf is it.
AliasInvariant ==
    \A s \in PresentSymbols(Store) : AliasAmount(s) = Cardinality(AliasesOf(s))

----------------------------------------------------------------------------
\* SpecEnter: one document entering symbols of every visibility, at the top
\* level and as a member, inside and outside blocks.

MaxEnterSteps == 4

NextEnter ==
    \/ \E path \in {<<"a">>, MemberPath}, v \in Visibilities :
           QueryEnter("file:A", "nbtdoc", path, Addition(v, Null, "untyped"))
    \/ BlockBegin("file:A")
    \/ BlockEnd

SpecEnter == Init(MaxEnterSteps) /\ [][NextEnter]_vars

\* The symbol the raw lookup of the last call's path resolves in the store st.
LookupOfCall(st, c) == lookup(getStack(st, c.uri), "nbtdoc", c.path, c.uri).symbol

----------------------------------------------------------------------------
\* SpecHoisting: one document running the hoisting chain for a top-level path
\* and a member path with every visibility, inside and outside blocks.

MaxHoistingSteps == 4

NextHoisting ==
    \/ \E path \in {<<"a">>, MemberPath}, v \in Visibilities :
           IfDeclaredElseEnter("file:A", "nbtdoc", path, Addition(v, Null, "declaration"))
    \/ BlockBegin("file:A")
    \/ BlockEnd

SpecHoisting == Init(MaxHoistingSteps) /\ [][NextHoisting]_vars

\* The last call created a symbol holding exactly one location, a declaration,
\* that its path now resolves to, and called no report.
CreatedWithOneDeclaration ==
    /\ ~last'.threw
    /\ last'.called = 0
    /\ Len(symbols') = Len(symbols) + 1
    /\ last'.symbol = Len(symbols')
    /\ LookupOfCall(Store', last') = last'.symbol
    /\ Len(symbols'[last'.symbol].locs["declaration"]) = 1
    /\ Len(AllLocations(symbols'[last'.symbol])) = 1

\* The last call called report and left every symbol, map, table and stack as it was.
ReportedWithoutEntering ==
    /\ last'.called = 1
    /\ symbols' = symbols
    /\ maps' = maps
    /\ global' = global
    /\ stackObjs' = stackObjs

\* The parent of the call's path, if the path has one, is resolved by lookup.
ParentResolvable(st, c) ==
    Len(c.path) = 1 \/ lookup(getStack(st, c.uri), "nbtdoc", c.path, c.uri).parentSymbol # Null

\* C3 (as stated): of successive executions of
\* query(doc, category, path).ifDeclared(report).elseEnter(declaration with visibility v)
\* starting from a table where the path is unknown, for any v, the first creates
\* the symbol with one declaration and calls no report, and every other one calls
\* report and adds neither a symbol nor a location.
HoistingAnyVisibility ==
    [][last'.op = "ifDeclaredElseEnter" =>
        /\ (last'.chain = 1) => CreatedWithOneDeclaration
        /\ (last'.chain >= 2) => ReportedWithoutEntering
    ]_vars

\* C3 (amended): the same, for a path whose parent (if it has one) is resolvable
\* and for every visibility v other than Restricted.
HoistingReportsDuplicate ==
    [][last'.op = "ifDeclaredElseEnter" =>
        /\ (last'.chain = 1 /\ ParentResolvable(Store, last')) => CreatedWithOneDeclaration
        /\ (last'.chain >= 2 /\ last'.addition.visibility # Restricted) => ReportedWithoutEntering
    ]_vars

\* A third successive execution of the chain has reported the symbol the first one declared.
HoistingReportsDuplicateWitness ==
    /\ last.op = "ifDeclaredElseEnter" /\ last.chain >= 3 /\ last.called = 1
    /\ Len(symbols) = 1
    /\ Len(symbols[1].locs["declaration"]) = 1

----------------------------------------------------------------------------
\* SpecAmend: one document entering and amending a top-level symbol with
\* additions that carry a visibility and at most one other field.

MaxAmendSteps == 3

\* The additions with the given visibility and at most one other field.
AmendAdditions(v) ==
    {SymbolAddition(Undefined, Undefined, v, Null, <<>>, Undefined),
     SymbolAddition("desc", Undefined, v, Null, <<>>, Undefined),
     SymbolAddition(Undefined, "subcategory", v, Null, <<>>, Undefined),
     SymbolAddition(Undefined, Undefined, v, Null, <<"file:B">>, Undefined),
     SymbolAddition(Undefined, Undefined, v, Null, <<>>, "definition")}
        \cup {SymbolAddition(Undefined, Undefined, v, t, <<>>, Undefined) : t \in AliasTargets}

\* The visibilities of the additions: one of each storage tier and a second
\* of the tier of the stack.
AmendVisibilities == {Block, File, Public}

NextAmend ==
    \/ \E path \in TopLevelPaths, v \in AmendVisibilities : \E addition \in AmendAdditions(v) :
           QueryEnter("file:A", "nbtdoc", path, addition)
    \/ Query("file:A", "nbtdoc", <<"a">>)
    \/ \E q \in 1..Len(queries), v \in AmendVisibilities :
           Amend(q, SymbolAddition("desc", Undefined, v, Null, <<>>, Undefined))

SpecAmend == Init(MaxAmendSteps) /\ [][NextAmend]_vars

\* The existing symbol the enter of the call c amends in the store st, if any:
\* the symbol the query object holds, when its map still holds it.
AmendTarget(st, qs, c) ==
    IF c.q = Null
    THEN query(st, c.uri, "nbtdoc", c.path).query.symbol
    ELSE IF /\ qs[c.q].symbol # Null
            /\ qs[c.q].map # Null
            /\ Get(st.maps[qs[c.q].map], c.path[Len(c.path)]) = qs[c.q].symbol
         THEN qs[c.q].symbol
         ELSE Null

\* The storage tier getTable chooses for a visibility.
StorageTier(v) ==
    IF v = Block THEN "block" ELSE IF v = File THEN "file" ELSE "global"

\* The addition of the call c carries a visibility of another storage tier than
\* the one of the existing symbol s.
CrossTier(st, s, c) ==
    /\ s # Null
    /\ c.addition.visibility # Undefined
    /\ StorageTier(st.symbols[s].visibility) # StorageTier(c.addition.visibility)

\* C4: an enter or amend applied to an existing symbol with a visibility of
\* another storage tier throws and leaves the symbol (and every other symbol)
\* exactly as it was before the call.
CrossTierAmendLeavesSymbol ==
    [][(last'.op \in {"queryEnter", "amend"}
            /\ CrossTier(Store, AmendTarget(Store, queries, last'), last')) =>
        /\ last'.threw
        /\ symbols' = symbols
    ]_vars

----------------------------------------------------------------------------
\* SpecPartial: two documents referring to the symbol a, a second symbol b
\* entered without usage and made an alias of a, and the retraction of either
\* document's locations.

MaxPartialSteps == 7

\* The symbol the global table holds at the top-level path, if any.
GlobalSymbolAt(path) == lookupTable(Store, global, "nbtdoc", path).symbol

NextPartial ==
    \/ \E uri \in Uris :
           QueryEnter(uri, "nbtdoc", <<"a">>, Addition(Undefined, Null, "reference"))
    \/ \E t \in {Null, GlobalSymbolAt(<<"a">>)} :
           QueryEnter("file:A", "nbtdoc", <<"b">>, Addition(Undefined, t, Undefined))
    \/ \E uri \in Uris : RemoveLocations(UriPredicate(uri))
    \/ Trim

SpecPartial == Init(MaxPartialSteps) /\ [][NextPartial]_vars

\* The symbol s is still in the global table, with exactly one location, not of the uri.
KeptWithOtherLocation(st, s, uri) ==
    /\ s \in TopLevelSymbols(st)
    /\ Len(AllLocations(st.symbols[s])) = 1
    /\ AllLocations(st.symbols[s])[1].uri # uri

\* The symbol s is no longer in the table and symbolRemoved was published for it.
RemovedWithEvent(st, evs, s) ==
    /\ s \notin PresentSymbols(st)
    /\ \E i \in 1..Len(evs) : evs[i].type = "symbolRemoved" /\ evs[i].symbol = s

\* C5: a global symbol without aliases that holds exactly two locations, one of
\* URI A and one of URI B, keeps exactly the B location after
\* removeLocations(global, loc => loc.uri === A), and a following
\* removeLocations(global, loc => loc.uri === B) removes it and publishes
\* symbolRemoved for it.
PartialInvalidation ==
    [][(last'.op = "removeLocations" /\ last'.method = "uri") =>
        /\ \A s \in last'.tracked : KeptWithOtherLocation(Store', s, last'.uri)
        /\ (last.op = "removeLocations" /\ last.method = "uri" /\ last.uri # last'.uri) =>
               \A s \in last.tracked : RemovedWithEvent(Store', events', s)
    ]_vars

----------------------------------------------------------------------------
\* SpecRetract: two documents entering a symbol and a member of it, and the
\* retraction of either document's locations.

MaxRetractSteps == 4

NextRetract ==
    \/ \E uri \in Uris, path \in {<<"a">>, MemberPath}, u \in {Undefined, "reference"} :
           QueryEnter(uri, "nbtdoc", path, Addition(Undefined, Null, u))
    \/ \E uri \in Uris : RemoveLocations(UriPredicate(uri))
    \/ \E uri \in Uris : Clear(uri)

SpecRetract == Init(MaxRetractSteps) /\ [][NextRetract]_vars

\* The paths of the global table, at every member depth the model enters.
RetractPaths == {<<"a">>, MemberPath}

\* The predicate of the removeLocations (or clear) call c.
PredicateOfCall(c) == [uri |-> c.uri, kind |-> c.method]

\* The locations of the usage type recorded on the symbol the global table of
\* the store st resolves at the path (none when it resolves no symbol).
LocationsAt(st, path, type) ==
    IF lookupTable(st, st.global, "nbtdoc", path).symbol = Null
    THEN <<>>
    ELSE st.symbols[lookupTable(st, st.global, "nbtdoc", path).symbol].locs[type]

\* C6: removeLocations(table, pred), trimming included, retracts only the
\* locations that satisfy pred: the locations that do not satisfy it and were
\* recorded on the symbol at a path, at any member depth, are afterwards
\* recorded on the symbol resolvable at that path.
RemoveLocationsKeepsOthers ==
    [][(last'.op = "removeLocations") =>
        \A path \in RetractPaths, type \in UsageTypeSet :
            LocationsAt(Store', path, type) =
                SelectSeq(LocationsAt(Store, path, type),
                          LAMBDA l : ~Matches(PredicateOfCall(last'), l))
    ]_vars

----------------------------------------------------------------------------
\* SpecShadow: document A entering the symbol a in blocks, directly and through
\* a query object made earlier, while document B enters it in its file scope
\* or globally.

MaxShadowSteps == 6
MaxShadowQueries == 1

NextShadow ==
    \/ \E v \in {Block, Public, Restricted} :
           QueryEnter("file:A", "nbtdoc", <<"a">>, Addition(v, Null, Undefined))
    \/ \E v \in {File, Public} :
           QueryEnter("file:B", "nbtdoc", <<"a">>, Addition(v, Null, Undefined))
    \/ (Len(queries) < MaxShadowQueries /\ Query("file:A", "nbtdoc", <<"a">>))
    \/ \E q \in 1..Len(queries) : Enter(q, Addition(Block, Null, Undefined))
    \/ BlockBegin("file:A")
    \/ BlockEnd

SpecShadow == Init(MaxShadowSteps) /\ [][NextShadow]_vars

\* The symbol the table holds at the path.
SymbolIn(table, path) == lookupTable(Store, table, "nbtdoc", path).symbol

\* The stack of the document (no frame when it has none yet).
StackOf(uri) == IF stacks[uri] = Null THEN <<>> ELSE stackObjs[stacks[uri]]

\* The nested frames (every frame but the first) of the document's stack that
\* hold a Block-visibility symbol at the path.
BlockFrames(uri, path) ==
    {f \in 2..Len(StackOf(uri)) :
        /\ SymbolIn(StackOf(uri)[f], path) # Null
        /\ symbols[SymbolIn(StackOf(uri)[f], path)].visibility = Block}

\* The frames of the document's stack that hold a symbol at the path.
HoldingFrames(uri, path) ==
    {f \in 1..Len(StackOf(uri)) : SymbolIn(StackOf(uri)[f], path) # Null}

\* The innermost of a non-empty set of frames.
Innermost(frames) == CHOOSE f \in frames : \A g \in frames : g <= f

\* lookup(category, path, uri) and lookup(category, path)
Resolved(uri, path) == lookup(getStack(Store, uri), "nbtdoc", path, uri).symbol
ResolvedWithoutUri(path) == lookup(Store, "nbtdoc", path, Undefined).symbol

\* A nested frame of D's stack holds a Block symbol at the path and the global
\* table holds a symbol at it.
Shadowed(D, path) == BlockFrames(D, path) # {} /\ SymbolIn(global, path) # Null

\* C7 (as stated): when a nested frame of D's stack holds a Block symbol at a
\* path where the global table holds a symbol, lookup from D resolves to that
\* block symbol, and lookup from any other document, or without a uri,
\* resolves to the global symbol.
BlockShadowsForAllOthers ==
    \A D \in Uris : Shadowed(D, <<"a">>) =>
        /\ \A f \in BlockFrames(D, <<"a">>) : Resolved(D, <<"a">>) = SymbolIn(StackOf(D)[f], <<"a">>)
        /\ \A E \in Uris \ {D} : Resolved(E, <<"a">>) = SymbolIn(global, <<"a">>)
        /\ ResolvedWithoutUri(<<"a">>) = SymbolIn(global, <<"a">>)

\* C7 (amended): in that case lookup from D resolves to the symbol of the
\* innermost frame of D's stack that holds one at the path, lookup from another
\* document whose own stack holds no symbol at the path resolves to the global
\* symbol, and so does lookup without a uri.
BlockShadowsGlobal ==
    \A D \in Uris : Shadowed(D, <<"a">>) =>
        /\ Resolved(D, <<"a">>) = SymbolIn(StackOf(D)[Innermost(HoldingFrames(D, <<"a">>))], <<"a">>)
        /\ \A E \in Uris \ {D} :
               HoldingFrames(E, <<"a">>) = {} => Resolved(E, <<"a">>) = SymbolIn(global, <<"a">>)
        /\ ResolvedWithoutUri(<<"a">>) = SymbolIn(global, <<"a">>)

\* A block symbol of document A shadows a global symbol that document B resolves.
BlockShadowsGlobalWitness ==
    /\ Shadowed("file:A", <<"a">>)
    /\ HoldingFrames("file:B", <<"a">>) = {}
    /\ Resolved("file:B", <<"a">>) = SymbolIn(global, <<"a">>)
    /\ Resolved("file:A", <<"a">>) # SymbolIn(global, <<"a">>)
    /\ symbols[Resolved("file:A", <<"a">>)].visibility = Block

----------------------------------------------------------------------------
\* SpecTrim: symbols entered without usage and made aliases of one another, a
\* member possibly referenced, and trimmed.

MaxTrimSteps == 7

\* The symbol the path resolves to in the global table.
TrimSymbolAt(path) == lookupTable(Store, global, "nbtdoc", path).symbol

NextTrim ==
    \/ \E path \in TopLevelPaths \cup {MemberPath} :
           \E t \in {Null} \cup (AliasTargets \ {TrimSymbolAt(path)}) :
               QueryEnter("file:A", "nbtdoc", path, Addition(Undefined, t, Undefined))
    \/ QueryEnter("file:A", "nbtdoc", MemberPath, Addition(Undefined, Null, "reference"))
    \/ Trim

SpecTrim == Init(MaxTrimSteps) /\ [][NextTrim]_vars

\* C8: a trim that immediately follows a trim changes nothing: the symbols
\* (their aliasAmount included), the maps and the table are those left by the
\* first trim, and the second trim publishes no symbolRemoved event.
TrimIdempotent ==
    [][(last.op = "trim" /\ last'.op = "trim") =>
        /\ symbols' = symbols
        /\ maps' = maps
        /\ global' = global
        /\ \A i \in 1..Len(events') : events'[i].type # "symbolRemoved"
    ]_vars

----------------------------------------------------------------------------
\* SpecChain: one query object for the path a and the calls chained on it:
\* every if* method with a reporting and with an entering callback, amend with
\* an addition of the same and of another storage tier, and the else* methods.

MaxChainSteps == 5
MaxChainQueries == 1

\* The additions of the chain: a declaration, and a change to Block visibility.
ChainAdditions == {Addition(Undefined, Null, "declaration"), Addition(Block, Null, Undefined)}

NextChain ==
    \/ (Len(queries) < MaxChainQueries /\ Query("file:A", "nbtdoc", <<"a">>))
    \/ QueryEnter("file:A", "nbtdoc", <<"a">>, Addition(Undefined, Null, "reference"))
    \/ \E q \in 1..Len(queries), method \in IfMethods,
          fn \in {Report, EnterCallback(Addition(Undefined, Null, "declaration"))} :
           If(q, method, fn)
    \/ \E q \in 1..Len(queries), addition \in ChainAdditions : Amend(q, addition)
    \/ \E q \in 1..Len(queries) : Else(q, Report)
    \/ \E q \in 1..Len(queries), addition \in ChainAdditions : ElseEnter(q, addition)
    \/ \E q \in 1..Len(queries) : ElseResolveAlias(q)

SpecChain == Init(MaxChainSteps) /\ [][NextChain]_vars

ElseOps == {"else", "elseEnter", "elseResolveAlias"}

----------------------------------------------------------------------------
\* SpecKnown: two documents making query objects for a top-level path and a
\* member path, entering symbols of the global and of the file tier, and
\* amending through the query objects, those made before the symbol existed
\* included.

MaxKnownSteps == 4
MaxKnownQueries == 2

\* The additions of the amend calls: with and without a visibility, an alias
\* target and a usage.
KnownAdditions ==
    {Addition(v, t, u) : v \in {Undefined, File}, t \in AliasTargets, u \in {Undefined, "definition"}}

NextKnown ==
    \/ \E uri \in Uris, path \in {<<"a">>, MemberPath} :
           (Len(queries) < MaxKnownQueries /\ Query(uri, "nbtdoc", path))
    \/ \E path \in {<<"a">>, MemberPath}, v \in {Undefined, File, Restricted} :
           QueryEnter("file:A", "nbtdoc", path, Addition(v, Null, "reference"))
    \/ \E q \in 1..Len(queries), addition \in KnownAdditions : Amend(q, addition)

SpecKnown == Init(MaxKnownSteps) /\ [][NextKnown]_vars

\* The call left every symbol (aliasAmount included), map, table and stack as
\* it was and published no event.
NothingChanged ==
    /\ symbols' = symbols
    /\ maps' = maps
    /\ global' = global
    /\ stackObjs' = stackObjs
    /\ stacks' = stacks
    /\ events' = <<>>

\* The call on the query object q had on the store, on the events and on the
\* symbol and the map the object holds the effect r = [st, query] describes.
SameEffect(q, r) ==
    /\ symbols' = r.st.symbols
    /\ maps' = r.st.maps
    /\ global' = r.st.global
    /\ stackObjs' = r.st.stackObjs
    /\ stacks' = r.st.stacks
    /\ events' = r.st.events
    /\ last'.threw = r.st.threw
    /\ queries'[q].symbol = r.query.symbol
    /\ queries'[q].map = r.query.map

----------------------------------------------------------------------------
\* SpecParent: two documents entering paths of one, two and three segments,
\* directly and through query objects made earlier, and the retraction of a
\* document's locations.

MaxParentSteps == 4
MaxParentQueries == 2

\* The paths of the calls: a, a.b and a.b.a.
ParentPaths == {<<"a">>, MemberPath, MemberPath \o <<"a">>}

NextParent ==
    \/ \E uri \in Uris, path \in ParentPaths, v \in {Undefined, File, Restricted} :
           QueryEnter(uri, "nbtdoc", path, Addition(v, Null, "reference"))
    \/ \E uri \in Uris, path \in ParentPaths \ {<<"a">>} :
           (Len(queries) < MaxParentQueries /\ Query(uri, "nbtdoc", path))
    \/ \E q \in 1..Len(queries), v \in {Undefined, File} : Enter(q, Addition(v, Null, "reference"))
    \/ \E uri \in Uris : Clear(uri)

SpecParent == Init(MaxParentSteps) /\ [][NextParent]_vars

\* The symbol lookup resolves, from the document, at the path without its
\* last segment.
ParentOf(st, uri, path) ==
    lookup(getStack(st, uri), "nbtdoc", SubSeq(path, 1, Len(path) - 1), uri).symbol

\* The call threw and left every symbol (aliasAmount included), every map, the
\* global table and every stack as in the store st, and published no event.
FailedWithout(st) ==
    /\ last'.threw
    /\ symbols' = st.symbols
    /\ maps' = st.maps
    /\ global' = st.global
    /\ stackObjs' = st.stackObjs
    /\ stacks' = st.stacks
    /\ events' = <<>>

----------------------------------------------------------------------------
\* SpecTier: document A entering and amending the symbol a with every
\* visibility, directly and through a query object made earlier, inside and
\* outside blocks, document B referring to the symbol b, and the retraction of
\* either document's locations.

MaxTierSteps == 5
MaxTierQueries == 1

NextTier ==
    \/ \E v \in Visibilities : QueryEnter("file:A", "nbtdoc", <<"a">>, Addition(v, Null, "reference"))
    \/ QueryEnter("file:B", "nbtdoc", <<"b">>, Addition(Undefined, Null, "reference"))
    \/ (Len(queries) < MaxTierQueries /\ Query("file:A", "nbtdoc", <<"a">>))
    \/ \E q \in 1..Len(queries), v \in Visibilities : Enter(q, Addition(v, Null, "reference"))
    \/ \E q \in 1..Len(queries), v \in Visibilities : Amend(q, Addition(v, Null, Undefined))
    \/ BlockBegin("file:A")
    \/ BlockEnd
    \/ \E uri \in Uris : Clear(uri)
    \/ RemoveLocations(UriPredicate("file:A"))

SpecTier == Init(MaxTierSteps) /\ [][NextTier]_vars

\* The symbols directly held by the maps of a table.
TopLevelOf(table) ==
    UNION {{maps[table[i].val][j].val : j \in 1..Len(maps[table[i].val])} : i \in 1..Len(table)}

\* Every top-level symbol of the global table is of the global tier, and every
\* top-level symbol of a frame of a document's stack is of visibility File or
\* Block, File in the first frame only.
StoredByTier ==
    /\ \A s \in TopLevelOf(global) : StorageTier(symbols[s].visibility) = "global"
    /\ \A uri \in Uris : \A f \in 1..Len(StackOf(uri)) : \A s \in TopLevelOf(StackOf(uri)[f]) :
           /\ symbols[s].visibility \in {File, Block}
           /\ symbols[s].visibility = File => f = 1

\* No call changes the storage tier of the visibility of a symbol.
TierKept ==
    \A s \in 1..Len(symbols) :
        StorageTier(symbols'[s].visibility) = StorageTier(symbols[s].visibility)

\* C13: in every state reached through query, enter, amend, block, clear and
\* removeLocations, enters on query objects made before other calls included,
\* the top-level symbols of the global table have visibility Public, Restricted
\* or none, those of visibility File are in the first frame of a document's
\* stack and those of visibility Block in a frame of a document's stack; and no
\* call moves a symbol's visibility to another tier.
VisibilityDeterminesTier ==
    []StoredByTier /\ [][TierKept]_vars

----------------------------------------------------------------------------
\* SpecVisible: two documents entering the symbol a and its member a.b with
\* and without Restricted visibility, and making query objects for them with
\* query() and with queryMember().

MaxVisibleSteps == 4
MaxVisibleQueries == 2

NextVisible ==
    \/ \E uri \in Uris, path \in {<<"a">>, MemberPath}, v \in {Undefined, Restricted, File} :
           QueryEnter(uri, "nbtdoc", path, Addition(v, Null, "reference"))
    \/ \E uri \in Uris, path \in {<<"a">>, MemberPath} :
           (Len(queries) < MaxVisibleQueries /\ Query(uri, "nbtdoc", path))
    \/ \E q \in 1..Len(queries) :
           (Len(queries) < MaxVisibleQueries /\ QueryMember(q, "b", Report))

SpecVisible == Init(MaxVisibleSteps) /\ [][NextVisible]_vars

\* The symbols of the entries of an ordered dictionary.
Values(d) == {d[i].val : i \in 1..Len(d)}

\* No symbol of the set has visibility Restricted.
NoneRestricted(S) == \A s \in S : symbols[s].visibility # Restricted

\* Neither getVisibleSymbols, from any document or without one, nor the
\* visibleMembers of any query object holds a Restricted symbol.
VisibleSetsHideRestricted ==
    /\ \A uri \in Uris : NoneRestricted(Values(getVisibleSymbols(getStack(Store, uri), uri, "nbtdoc")))
    /\ NoneRestricted(Values(getVisibleSymbols(Store, Undefined, "nbtdoc")))
    /\ \A q \in 1..Len(queries) : NoneRestricted(Values(visibleMembers(Store, queries[q])))

\* The query object the last call has made, by query() or by queryMember()
\* with a callback that only reports, holds no Restricted symbol.
NewQueryHidesRestricted ==
    (\/ last'.op = "query"
     \/ (last'.op = "queryMember" /\ last'.called = 1)) =>
        (queries'[Len(queries')].symbol # Null =>
            symbols'[queries'[Len(queries')].symbol].visibility # Restricted)

\* C14: a Restricted symbol is never exposed to a requesting document: it is
\* never the symbol held by a query object made by SymbolUtil.query or by
\* queryMember (the object holds null, for which ifUnknown fires), and it is
\* never in the result of getVisibleSymbols or visibleMembers.
RestrictedNeverExposed ==
    []VisibleSetsHideRestricted /\ [][NewQueryHidesRestricted]_vars

----------------------------------------------------------------------------
\* SpecBlock: nested block() calls of two documents whose callbacks enter
\* Block and File symbols, directly and through a query object made earlier,
\* clear a document, and return or throw.

MaxBlockSteps == 5
MaxBlockQueries == 1

NextBlock ==
    \/ \E uri \in Uris : BlockBegin(uri)
    \/ \E fnThrew \in BOOLEAN : BlockExit(fnThrew)
    \/ \E v \in {Block, File} : QueryEnter("file:A", "nbtdoc", <<"a">>, Addition(v, Null, "declaration"))
    \/ (Len(queries) < MaxBlockQueries /\ Query("file:A", "nbtdoc", <<"a">>))
    \/ \E q \in 1..Len(queries) : Enter(q, Addition(Block, Null, "declaration"))
    \/ Clear("file:A")

SpecBlock == Init(MaxBlockSteps) /\ [][NextBlock]_vars

\* The depth of the stack getStack(uri) returns.
DepthOf(st, uri) == Len(getStack(st, uri).stackObjs[getStack(st, uri).stacks[uri]])

\* The symbols, at any member depth, of the frame the running block() call b
\* pushed.
SymbolsOfPushedFrame(b) ==
    IF Len(stackObjs[b.stack]) > b.depth
    THEN SymbolsOfTable(Store, stackObjs[b.stack][b.depth + 1])
    ELSE {}

\* Every stack, of a document or kept by a running call, has at least one frame.
NoEmptyStack == \A i \in 1..Len(stackObjs) : Len(stackObjs[i]) >= 1

\* The block() call b that ends leaves the document's stack as deep as it was
\* when the call was made, and the symbols of the frame it pushed are not held
\* by any table any more.
StackRestored(b) ==
    /\ DepthOf(Store', b.uri) = b.depth
    /\ SymbolsOfPushedFrame(b) \cap PresentSymbols(Store') = {}

\* C15: every block(uri, fn) call, at any nesting depth and whether fn returns
\* or throws, leaves the document's stack as deep as it found it, the frame it
\* pushed and the Block symbols entered into it are no longer resolvable, and
\* no stack ever has fewer than one frame.
BlockRestoresStack ==
    []NoEmptyStack /\ [][last'.op = "blockEnd" => StackRestored(blocks[Len(blocks)])]_vars

----------------------------------------------------------------------------
\* SpecClear: two documents entering the symbol a in the global table and in
\* their stacks, inside and outside a block and a URI binding, document A
\* entering the member a.b, a global symbol b both refer to and document A
\* makes an alias of another symbol, and the clearing of either document.

MaxClearSteps == 5

NextClear ==
    \/ \E uri \in Uris, v \in {Undefined, File} :
           QueryEnter(uri, "nbtdoc", <<"a">>, Addition(v, Null, "reference"))
    \/ QueryEnter("file:B", "nbtdoc", <<"a">>, Addition(Block, Null, "reference"))
    \/ QueryEnter("file:A", "nbtdoc", MemberPath, Addition(Undefined, Null, "reference"))
    \/ \E t \in AliasTargets \ {Null} :
           QueryEnter("file:A", "nbtdoc", <<"b">>, Addition(Undefined, t, "reference"))
    \/ QueryEnter("file:B", "nbtdoc", <<"b">>, Addition(Undefined, Null, "reference"))
    \/ BlockBegin("file:B")
    \/ (~isUriBinding /\ UriBindingBegin)
    \/ UriBindingEnd(FALSE)
    \/ \E uri \in Uris : Clear(uri)

SpecClear == Init(MaxClearSteps) /\ [][NextClear]_vars

\* The symbols, at any member depth, of the stack of the document in the store st.
SymbolsOfStack(st, uri) ==
    IF st.stacks[uri] = Null
    THEN {}
    ELSE UNION {SymbolsOfTable(st, st.stackObjs[st.stacks[uri]][f])
                : f \in 1..Len(st.stackObjs[st.stacks[uri]])}

\* The symbol without its aliasAmount, the count the alias events keep on the
\* target of an alias.
WithoutAliasAmount(symbol) == [symbol EXCEPT !.hasAliasAmount = FALSE, !.aliasAmount = 0]

\* The document's stack, with its frames, the maps they hold, their symbols at
\* any member depth and the locations of those, is after the call what it was
\* before, the aliasAmount of its symbols aside.
StackUnchanged(uri) ==
    /\ stacks'[uri] = stacks[uri]
    /\ stacks[uri] # Null => stackObjs'[stacks[uri]] = stackObjs[stacks[uri]]
    /\ SymbolsOfStack(Store', uri) = SymbolsOfStack(Store, uri)
    /\ \A s \in SymbolsOfStack(Store, uri) :
           /\ WithoutAliasAmount(symbols'[s]) = WithoutAliasAmount(symbols[s])
           /\ symbols[s].members # Null => maps'[symbols[s].members] = maps[symbols[s].members]

\* The document has no stack: none of the symbols its stack held is held by a
\* table any more, lookup from the document resolves symbols of the global
\* table only, and getStack makes it a stack of one empty frame.
StackDropped(uri) ==
    /\ stacks'[uri] = Null
    /\ SymbolsOfStack(Store, uri) \cap PresentSymbols(Store') = {}
    /\ \A path \in {<<"a">>, <<"b">>, MemberPath} :
           lookup(getStack(Store', uri), "nbtdoc", path, uri).symbol
               \in {Null} \cup SymbolsOfTable(Store', global')
    /\ getStack(Store', uri).stackObjs[getStack(Store', uri).stacks[uri]] = << <<>> >>

\* No symbol of the global table, at any member depth, holds a location of the
\* uri that is not URI-bound.
NoLocationOf(uri) ==
    \A s \in SymbolsOfTable(Store', global') :
        \A i \in 1..Len(AllLocations(symbols'[s])) :
            ~(/\ ~AllLocations(symbols'[s])[i].isUriBound
              /\ AllLocations(symbols'[s])[i].uri = uri)

----------------------------------------------------------------------------
\* SpecBinding: uriBinding() calls whose callback enters symbols of the global
\* and of the file tier, directly and through a query object made before,
\* during or after the binding, and returns or throws.

MaxBindingSteps == 5
MaxBindingQueries == 1

NextBinding ==
    \/ (~isUriBinding /\ UriBindingBegin)
    \/ \E fnThrew \in BOOLEAN : UriBindingEnd(fnThrew)
    \/ \E v \in {Undefined, File} :
           QueryEnter("file:A", "nbtdoc", <<"a">>, Addition(v, Null, "declaration"))
    \/ (Len(queries) < MaxBindingQueries /\ Query("file:A", "nbtdoc", <<"a">>))
    \/ \E q \in 1..Len(queries), v \in {Undefined, File} : Enter(q, Addition(v, Null, "declaration"))

SpecBinding == Init(MaxBindingSteps) /\ [][NextBinding]_vars

\* The symbol s of the store st holds a URI-bound location.
HoldsUriBound(st, s) ==
    \E i \in 1..Len(AllLocations(st.symbols[s])) : AllLocations(st.symbols[s])[i].isUriBound

\* C17: when uriBinding starts running its callback, no URI-bound location
\* recorded before remains in the workspace, neither on a symbol of the global
\* table nor on a File or Block symbol of a document's stack.
UriBindingRetractsEverywhere ==
    [][(last'.op = "uriBindingBegin") =>
        \A s \in PresentSymbols(Store') : ~HoldsUriBound(Store', s)
    ]_vars

\* The location the last call, an enter, has recorded.
EnteredLocation ==
    symbols'[last'.symbol].locs[UsageType(last'.addition.usage)]
        [Len(symbols'[last'.symbol].locs[UsageType(last'.addition.usage)])]

\* C18: the location an enter records is URI-bound exactly when the enter is
\* executed while a uriBinding callback is running, whenever the query object
\* it is made on was constructed.
UriBoundIffEnteredWhileBinding ==
    [][(last'.op \in {"enter", "queryEnter"} /\ ~last'.threw) =>
        (EnteredLocation.isUriBound <=> isUriBinding)
    ]_vars

\* C19: uriBinding never throws the error of its callback: it returns normally
\* with URI binding switched off, whether the callback returned or threw (the
\* error is then logged, once), and every symbol, map, table and stack is as
\* the callback left it.
UriBindingSwallowsError ==
    [][(last'.op = "uriBindingEnd") =>
        /\ ~last'.threw
        /\ ~isUriBinding'
        /\ last'.called \in {0, 1}
        /\ symbols' = symbols
        /\ maps' = maps
        /\ global' = global
        /\ stackObjs' = stackObjs
        /\ stacks' = stacks
    ]_vars

\* A uriBinding whose callback threw has returned, the error logged: the
\* symbol the callback had entered is still in the table, URI-bound.
UriBindingSwallowsErrorWitness ==
    /\ last.op = "uriBindingEnd" /\ last.called = 1 /\ ~last.threw
    /\ ~isUriBinding
    /\ \E s \in PresentSymbols(Store) : HoldsUriBound(Store, s)

----------------------------------------------------------------------------
\* SpecMember: one document making query objects for the top-level paths, known
\* or unknown, calling queryMember on them and on the member queries it hands
\* out, with callbacks that report or enter, and entering through the kept
\* query objects.

MaxMemberSteps == 4
MaxMemberQueries == 3

\* The callbacks of queryMember: one that only keeps the member query, and
\* those that enter through it an addition of each storage tier.
MemberCallbacks ==
    {Report} \cup {EnterCallback(Addition(v, Null, "declaration")) : v \in {Undefined, Block, File}}

NextMember ==
    \/ \E v \in {Undefined, File} :
           QueryEnter("file:A", "nbtdoc", <<"a">>, Addition(v, Null, "reference"))
    \/ \E path \in TopLevelPaths :
           (Len(queries) < MaxMemberQueries /\ Query("file:A", "nbtdoc", path))
    \/ \E q \in 1..Len(queries), fn \in MemberCallbacks :
           (Len(queries) < MaxMemberQueries /\ QueryMember(q, "b", fn))
    \/ \E q \in 1..Len(queries), v \in {Undefined, Block} :
           Enter(q, Addition(v, Null, "declaration"))

SpecMember == Init(MaxMemberSteps) /\ [][NextMember]_vars

\* The symbol s is held, under the identifier, by the member map of the
\* symbol parentSymbol, and directly by no table: neither the global table nor
\* a frame of a document's stack.
StoredAsMemberOf(parentSymbol, identifier, s) ==
    /\ symbols'[parentSymbol].members # Null
    /\ Get(maps'[symbols'[parentSymbol].members], identifier) = s
    /\ s \notin TopLevelSymbols(Store')
    /\ \A uri \in Uris :
           stacks'[uri] # Null =>
               \A f \in 1..Len(stackObjs'[stacks'[uri]]) :
                   \A i \in 1..Len(stackObjs'[stacks'[uri]][f]) :
                       \A j \in 1..Len(maps'[stackObjs'[stacks'[uri]][f][i].val]) :
                           maps'[stackObjs'[stacks'[uri]][f][i].val][j].val # s

\* C20: queryMember(identifier, fn) on a query object that holds no symbol
\* throws without invoking fn or changing anything; on one that holds a symbol
\* it invokes fn, once, with a new query object for path + [identifier]; and
\* an enter through that member query, by fn or later, stores the symbol in the
\* member map of the symbol the parent query holds (made if absent), whatever
\* the visibility of the addition, and in no table or stack frame.
QueryMemberEntersIntoParent ==
    [][/\ (last'.op = "queryMember" /\ queries[last'.q].symbol = Null) =>
             /\ last'.threw /\ last'.called = 0
             /\ NothingChanged
             /\ queries' = queries
       /\ (last'.op = "queryMember" /\ queries[last'.q].symbol # Null) =>
             /\ last'.called = 1
             /\ Len(queries') = Len(queries) + 1
             /\ queries'[Len(queries')].path = queries[last'.q].path \o <<"b">>
             /\ queries'[Len(queries')].parent = last'.q
             /\ (last'.addition # NoAddition /\ ~last'.threw) =>
                    StoredAsMemberOf(queries[last'.q].symbol, "b", last'.symbol)
       /\ (last'.op = "enter" /\ queries[last'.q].parent # Null /\ ~last'.threw) =>
             StoredAsMemberOf(queries[queries[last'.q].parent].symbol, "b", last'.symbol)
    ]_vars

\* An enter with Block visibility through a kept member query has stored the
\* symbol a.b in the member map of the symbol a.
QueryMemberEntersIntoParentWitness ==
    /\ last.op = "enter" /\ ~last.threw
    /\ queries[last.q].parent # Null
    /\ last.path = MemberPath
    /\ symbols[last.symbol].visibility = Block
    /\ lookupTable(Store, global, "nbtdoc", MemberPath).symbol = last.symbol

----------------------------------------------------------------------------
\* SpecDefined: a document entering declarations, definitions and
\* implementations of the symbol a, and query objects for a asked ifDefined
\* with a reporting callback.

MaxDefinedSteps == 4
MaxDefinedQueries == 2

NextDefined ==
    \/ \E usage \in {"declaration", "definition", "implementation", "reference"} :
           QueryEnter("file:A", "nbtdoc", <<"a">>, Addition(Undefined, Null, usage))
    \/ (Len(queries) < MaxDefinedQueries /\ Query("file:A", "nbtdoc", <<"a">>))
    \/ \E q \in 1..Len(queries) : If(q, "ifDefined", Report)

SpecDefined == Init(MaxDefinedSteps) /\ [][NextDefined]_vars

\* The symbol s has a definition, or both a declaration and an implementation.
DefinedOrDeclaredAndImplemented(s) ==
    /\ s # Null
    /\ \/ HasLocations(Store, s, "definition")
       \/ (HasLocations(Store, s, "declaration") /\ HasLocations(Store, s, "implementation"))

\* C21: ifDefined(fn) calls fn exactly when the symbol the query holds has a
\* definition location, or both a declaration and an implementation location.
IfDefinedByDefinitionOrBoth ==
    [][(last'.op = "if" /\ last'.method = "ifDefined") =>
        (last'.called = 1 <=> DefinedOrDeclaredAndImplemented(queries[last'.q].symbol))
    ]_vars

\* ifDefined(fn) calls fn exactly when the symbol the query holds has a
\* definition location.
IfDefinedByDefinitionOnly ==
    [][(last'.op = "if" /\ last'.method = "ifDefined") =>
        (last'.called = 1 <=>
            (queries[last'.q].symbol # Null
             /\ HasLocations(Store, queries[last'.q].symbol, "definition")))
    ]_vars

----------------------------------------------------------------------------
\* SpecResolve: a document entering the symbols a, b and a.b, each as an alias
\* of any symbol or of none, query objects for them, and resolveAlias on the
\* query objects.

MaxResolveSteps == 5
MaxResolveQueries == 1

ResolvePaths == {<<"a">>, <<"b">>, MemberPath}

NextResolve ==
    \/ \E path \in ResolvePaths, t \in AliasTargets :
           QueryEnter("file:A", "nbtdoc", path, Addition(Undefined, t, "reference"))
    \/ \E path \in ResolvePaths :
           (Len(queries) < MaxResolveQueries /\ Query("file:A", "nbtdoc", path))
    \/ \E q \in 1..Len(queries) : ResolveAlias(q)

SpecResolve == Init(MaxResolveSteps) /\ [][NextResolve]_vars

RECURSIVE AliasChain(_, _)
\* The symbols on the chain of relations.aliasOf links from s, after those seen.
AliasChain(s, seen) ==
    IF s = Null \/ s \in seen THEN seen ELSE AliasChain(symbols[s].aliasOf, seen \cup {s})

RECURSIVE ChainCycles(_, _)
\* The chain of relations.aliasOf links from s comes back to a symbol of it.
ChainCycles(s, seen) ==
    IF s = Null THEN FALSE
    ELSE IF s \in seen THEN TRUE
    ELSE ChainCycles(symbols[s].aliasOf, seen \cup {s})

\* The symbol of an acyclic chain that is an alias of none.
LastOfChain(s) == CHOOSE t \in AliasChain(s, {}) : symbols[t].aliasOf = Null

\* C22: resolveAlias on a query whose symbol heads an acyclic chain of
\* relations.aliasOf links returns, the query then holding the last symbol of
\* the chain, which is an alias of none; resolveAlias again leaves that symbol
\* in place; a query without a symbol stays without one. Nothing of the table
\* changes.
ResolveAliasReachesChainEnd ==
    [][(last'.op = "resolveAlias") =>
        /\ queries[last'.q].symbol = Null =>
               (~last'.threw /\ queries'[last'.q].symbol = Null)
        /\ (queries[last'.q].symbol # Null /\ ~ChainCycles(queries[last'.q].symbol, {})) =>
               /\ ~last'.threw
               /\ queries'[last'.q].symbol = LastOfChain(queries[last'.q].symbol)
               /\ symbols[queries'[last'.q].symbol].aliasOf = Null
               /\ resolveAliasOfQuery(Store, queries'[last'.q]) = queries'[last'.q]
        /\ (last.op = "resolveAlias" /\ last.q = last'.q /\ ~last.threw) =>
               (~last'.threw /\ queries'[last'.q].symbol = queries[last'.q].symbol)
        /\ NothingChanged
    ]_vars

\* resolveAlias has replaced the symbol of a query for a.b, an alias of an
\* alias, by the symbol at the end of the chain of two links.
ResolveAliasReachesChainEndWitness ==
    /\ last.op = "resolveAlias" /\ ~last.threw
    /\ last.path = MemberPath
    /\ \E s, m \in 1..Len(symbols) :
           /\ lookupTable(Store, global, "nbtdoc", MemberPath).symbol = s
           /\ symbols[s].aliasOf = m
           /\ m # s
           /\ symbols[m].aliasOf = queries[last.q].symbol
           /\ queries[last.q].symbol \notin {s, m}

\* C29: resolveAlias on a query whose symbol heads a chain of relations.aliasOf
\* links that contains a cycle returns no symbol: the call ends by the
\* exhaustion of the call stack, the query holding the symbol it held.
ResolveAliasOnCycleNeverReturns ==
    [][(/\ last'.op = "resolveAlias"
        /\ queries[last'.q].symbol # Null
        /\ ChainCycles(queries[last'.q].symbol, {})) =>
        /\ last'.threw
        /\ queries'[last'.q] = queries[last'.q]
        /\ NothingChanged
    ]_vars

\* resolveAlias has failed on a query for the symbol a, which enter has made
\* an alias of b after making b an alias of a.
ResolveAliasOnCycleNeverReturnsWitness ==
    /\ last.op = "resolveAlias" /\ last.threw
    /\ \E s, t \in PresentSymbols(Store) :
           /\ s # t
           /\ queries[last.q].symbol = s
           /\ symbols[s].aliasOf = t
           /\ symbols[t].aliasOf = s

\* resolveAlias has failed on a query for a symbol that enter has made an
\* alias of itself.
ResolveAliasOnSelfAlias ==
    /\ last.op = "resolveAlias" /\ last.threw
    /\ symbols[queries[last.q].symbol].aliasOf = queries[last.q].symbol
    /\ queries[last.q].symbol \in PresentSymbols(Store)

----------------------------------------------------------------------------
\* SpecAtomic: one document entering the top-level symbols with additions that
\* carry a declaration together with a visibility, a description or an alias
\* target.

MaxAtomicSteps == 3

AtomicAdditions ==
    {SymbolAddition(desc, Undefined, v, t, <<>>, "declaration") :
        desc \in {Undefined, "desc"}, v \in {Undefined, Public, Block}, t \in AliasTargets}

NextAtomic ==
    \E path \in TopLevelPaths, addition \in AtomicAdditions :
        QueryEnter("file:A", "nbtdoc", path, addition)

SpecAtomic == Init(MaxAtomicSteps) /\ [][NextAtomic]_vars

\* The enter applied nothing: every symbol, aliasAmount included, and every
\* map is as it was, and no event was published.
NoEffectApplied ==
    /\ symbols' = symbols
    /\ maps' = maps
    /\ events' = <<>>

\* The enter recorded the usage of its addition: the symbol it returns holds
\* one declaration more than the symbol held before, if it existed.
UsageRecorded ==
    /\ last'.symbol # Null
    /\ Len(symbols'[last'.symbol].locs["declaration"]) =
           IF last'.symbol \in 1..Len(symbols)
           THEN Len(symbols[last'.symbol].locs["declaration"]) + 1
           ELSE 1

\* C23: an enter that has finished has applied all of its effects or none: if
\* it threw, no symbol, alias count or map has changed and no event was
\* published; if it returned, the usage location of the addition is recorded.
EnterAllOrNothing ==
    [][(last'.op = "queryEnter") =>
        IF last'.threw THEN NoEffectApplied ELSE UsageRecorded
    ]_vars

\* An enter that throws changes nothing but the description, the alias target
\* and the alias counts, which it changed before it threw.
EnterThrowsAfterMetadata ==
    [][(last'.op = "queryEnter" /\ last'.threw) =>
        /\ maps' = maps
        /\ Len(symbols') = Len(symbols)
        /\ \A s \in 1..Len(symbols) :
               [symbols'[s] EXCEPT !.desc = Undefined, !.aliasOf = Null,
                                   !.hasAliasAmount = FALSE, !.aliasAmount = 0]
                 = [symbols[s] EXCEPT !.desc = Undefined, !.aliasOf = Null,
                                      !.hasAliasAmount = FALSE, !.aliasAmount = 0]
    ]_vars

----------------------------------------------------------------------------
\* SpecCreate: two documents entering the symbols a, b and a.b with and
\* without a usage, in the global table and in their stacks.

MaxCreateSteps == 3

NextCreate ==
    \E uri \in Uris, path \in {<<"a">>, <<"b">>, MemberPath}, v \in {Undefined, File},
       usage \in {Undefined, "declaration", "reference"} :
        QueryEnter(uri, "nbtdoc", path, Addition(v, Null, usage))

SpecCreate == Init(MaxCreateSteps) /\ [][NextCreate]_vars

\* The last call was an enter that created its symbol, with a usage.
CreatedWithUsage ==
    /\ last'.op = "queryEnter" /\ ~last'.threw
    /\ last'.symbol \notin 1..Len(symbols)
    /\ last'.addition.usage # Undefined

\* The events of the given type the call published for the symbol, by their
\* place in the order of publication.
EventsOf(type, s) ==
    {i \in 1..Len(events') : events'[i].type = type /\ events'[i].symbol = s}

\* C24: an enter that creates a symbol with a usage publishes symbolCreated,
\* the symbol then being in its map, before it publishes
\* symbolLocationCreated; and whenever symbolLocationCreated is published, its
\* subscribers find the event's symbol in the event's map.
CreatedBeforeLocationCreated ==
    [][(last'.op = "queryEnter") =>
        /\ CreatedWithUsage =>
               /\ EventsOf("symbolCreated", last'.symbol) # {}
               /\ EventsOf("symbolLocationCreated", last'.symbol) # {}
               /\ \A i \in EventsOf("symbolCreated", last'.symbol) :
                      /\ events'[i].inMap
                      /\ \A j \in EventsOf("symbolLocationCreated", last'.symbol) : i < j
        /\ \A j \in 1..Len(events') :
               events'[j].type = "symbolLocationCreated" => events'[j].inMap
    ]_vars

\* An enter that creates a symbol with a usage publishes symbolLocationCreated
\* first, the symbol not yet being in its map, and symbolCreated after it.
LocationCreatedBeforeCreated ==
    [][CreatedWithUsage =>
        /\ Len(events') = 2
        /\ events'[1].type = "symbolLocationCreated" /\ ~events'[1].inMap
        /\ events'[2].type = "symbolCreated" /\ events'[2].inMap
        /\ events'[1].symbol = last'.symbol /\ events'[2].symbol = last'.symbol
        /\ events'[1].map = events'[2].map
    ]_vars

----------------------------------------------------------------------------
\* SpecAliasEvents: one document entering the top-level symbols with additions
\* that carry a description or none and an alias target or none: enters that
\* create an alias, that give a symbol its first target, that change the
\* target and that repeat it.

MaxAliasEventSteps == 4

NextAliasEvents ==
    \E path \in TopLevelPaths, desc \in {Undefined, "desc"}, t \in AliasTargets :
        QueryEnter("file:A", "nbtdoc", path,
                   SymbolAddition(desc, Undefined, Undefined, t, <<>>, "reference"))

SpecAliasEvents == Init(MaxAliasEventSteps) /\ [][NextAliasEvents]_vars

\* The alias target the symbol had before the call: none if the call created it.
TargetBefore(s) == IF s \in 1..Len(symbols) THEN symbols[s].aliasOf ELSE Null

\* The metadata an addition can set.
Metadata(symbol) ==
    <<symbol.desc, symbol.aliasOf, symbol.subcategory, symbol.visibility,
      symbol.visibilityRestriction>>

\* The alias events the call published, by their place in the order of publication.
AliasEvents == {i \in 1..Len(events') : events'[i].type \in {"symbolAliasCreated", "symbolAliasRemoved"}}

\* The event at place i is of the type, for the alias s and the target, and its
\* subscribers found on s the metadata s had before the call.
AliasEventBeforeMetadata(i, type, s, target) ==
    /\ events'[i].type = type
    /\ events'[i].symbol = s
    /\ events'[i].target = target
    /\ s \in 1..Len(symbols) => Metadata(events'[i].seen) = Metadata(symbols[s])

\* The call with an addition naming the target t, on the symbol s whose target
\* was old, published symbolAliasRemoved for old, if any, and after it
\* symbolAliasCreated for t, and nothing else about aliases.
PublishedAliasChange(s, old, t) ==
    \E i \in AliasEvents :
        /\ AliasEventBeforeMetadata(i, "symbolAliasCreated", s, t)
        /\ IF old = Null
           THEN AliasEvents = {i}
           ELSE \E j \in AliasEvents :
                    /\ j < i
                    /\ AliasEventBeforeMetadata(j, "symbolAliasRemoved", s, old)
                    /\ AliasEvents = {j, i}

\* C25: an enter whose addition names an alias target other than the one the
\* symbol has (a symbol without target and a symbol the enter creates
\* included) publishes symbolAliasRemoved for the old target, if any, and
\* symbolAliasCreated for the new one, the subscribers of both finding the
\* symbol with none of the addition's metadata applied; an enter that repeats
\* the target, or names none, publishes neither.
AliasChangePublishedFirst ==
    [][(last'.op = "queryEnter" /\ ~last'.threw) =>
        IF /\ last'.addition.aliasOf # Null
           /\ last'.addition.aliasOf # TargetBefore(last'.symbol)
        THEN PublishedAliasChange(last'.symbol, TargetBefore(last'.symbol), last'.addition.aliasOf)
        ELSE AliasEvents = {}
    ]_vars

\* The same of the enters on an existing symbol whose addition carries no
\* description: the events come before relations.aliasOf is assigned.
AliasChangePublishedBeforeRelations ==
    [][(/\ last'.op = "queryEnter" /\ ~last'.threw
        /\ last'.symbol \in 1..Len(symbols)
        /\ last'.addition.desc = Undefined) =>
        IF /\ last'.addition.aliasOf # Null
           /\ last'.addition.aliasOf # TargetBefore(last'.symbol)
        THEN PublishedAliasChange(last'.symbol, TargetBefore(last'.symbol), last'.addition.aliasOf)
        ELSE AliasEvents = {}
    ]_vars

\* An enter that creates a symbol publishes no alias event, whatever target
\* its addition names.
CreatingEnterPublishesNoAliasEvent ==
    [][(last'.op = "queryEnter" /\ ~last'.threw /\ last'.symbol \notin 1..Len(symbols)) =>
        AliasEvents = {}
    ]_vars

----------------------------------------------------------------------------
\* SpecLookup: two documents entering the symbol a in the global table, in
\* their file frame and in a block, and its member a.b, and lookups of a and
\* a.b from document A.

MaxLookupSteps == 5

NextLookup ==
    \/ \E uri \in Uris, v \in {Undefined, File, Block} :
           QueryEnter(uri, "nbtdoc", <<"a">>, Addition(v, Null, "reference"))
    \/ \E uri \in Uris :
           QueryEnter(uri, "nbtdoc", MemberPath, Addition(Undefined, Null, "reference"))
    \/ BlockBegin("file:A")
    \/ \E path \in {<<"a">>, MemberPath} : Lookup("file:A", "nbtdoc", path)

SpecLookup == Init(MaxLookupSteps) /\ [][NextLookup]_vars

\* The scope chain of the document after the call: the global table, then the
\* frames of its stack, the innermost last.
ScopeChain(uri) == <<global'>> \o stackObjs'[stacks'[uri]]

\* The tables of the chain that contain a part of the path: its first segment
\* at least.
HoldingTables(tables, path) ==
    {i \in 1..Len(tables) : MapGet(Store', Get(tables[i], "nbtdoc"), path[1]) # Null}

\* The innermost of the tables.
InnermostTable(S) == CHOOSE i \in S : \A j \in S : j <= i

\* C26: lookup answers from the innermost table of the scope chain that
\* contains any part of the path: its result is the result of lookupTable on
\* that table, the symbol absent if that table lacks the leaf, whatever the
\* tables further out hold; and the symbol is absent if no table holds a part.
LookupAnswersFromInnermostHolding ==
    [][(last'.op = "lookup") =>
        \A r \in last'.tracked :
            IF HoldingTables(ScopeChain(last'.uri), last'.path) # {}
            THEN r = lookupTable(Store',
                                 ScopeChain(last'.uri)[InnermostTable(
                                     HoldingTables(ScopeChain(last'.uri), last'.path))],
                                 "nbtdoc", last'.path)
            ELSE r.symbol = Null
    ]_vars

\* The tables of the chain that contain the whole path.
ResolvingTables(tables, path) ==
    {i \in 1..Len(tables) : lookupTable(Store', tables[i], "nbtdoc", path).symbol # Null}

\* lookup answers from the innermost table that contains the whole path, if
\* there is one, and otherwise, the symbol absent, with the map and parent
\* symbol of the innermost table that contains a part of it.
LookupPrefersCompletePath ==
    [][(last'.op = "lookup") =>
        \A r \in last'.tracked :
            IF ResolvingTables(ScopeChain(last'.uri), last'.path) # {}
            THEN r = lookupTable(Store',
                                 ScopeChain(last'.uri)[InnermostTable(
                                     ResolvingTables(ScopeChain(last'.uri), last'.path))],
                                 "nbtdoc", last'.path)
            ELSE IF HoldingTables(ScopeChain(last'.uri), last'.path) # {}
            THEN /\ r.symbol = Null
                 /\ r.parentSymbol = lookupTable(Store',
                                 ScopeChain(last'.uri)[InnermostTable(
                                     HoldingTables(ScopeChain(last'.uri), last'.path))],
                                 "nbtdoc", last'.path).parentSymbol
            ELSE r.symbol = Null /\ r.parentSymbol = Null
    ]_vars

----------------------------------------------------------------------------
\* SpecLookupTable: one document entering the symbols a, a.b and a.b.a in the
\* global table and in its file frame, and lookupTable on either table for
\* paths of one to three segments.

MaxLookupTableSteps == 4

LookupTablePaths == ParentPaths \cup {<<"b">>, <<"b", "a">>, <<"a", "a", "b">>}

\* The tables there are: the global table and the frames of the stacks.
TableRefs ==
    {GlobalRef} \cup {FrameRef(stack, frame) : stack \in 1..Len(stackObjs), frame \in 1..1}

NextLookupTable ==
    \/ \E path \in ParentPaths, v \in {Undefined, File} :
           QueryEnter("file:A", "nbtdoc", path, Addition(v, Null, "reference"))
    \/ \E ref \in TableRefs, path \in LookupTablePaths : LookupTable(ref, "nbtdoc", path)

SpecLookupTable == Init(MaxLookupTableSteps) /\ [][NextLookupTable]_vars

RECURSIVE SegmentSymbol(_, _, _)
\* The symbol the first k segments of the path lead to in the table, if any.
SegmentSymbol(table, path, k) ==
    IF k = 1
    THEN MapGet(Store, Get(table, "nbtdoc"), path[1])
    ELSE IF SegmentSymbol(table, path, k - 1) = Null
         THEN Null
         ELSE MapGet(Store, symbols[SegmentSymbol(table, path, k - 1)].members, path[k])

\* The map that holds, or would hold, the leaf of the path whose segments
\* before the last resolve: the category's map of the table or the member map
\* of the parent, null while it does not exist.
LeafMap(table, path) ==
    IF Len(path) = 1
    THEN Get(table, "nbtdoc")
    ELSE symbols[SegmentSymbol(table, path, Len(path) - 1)].members

\* The symbol of the second-to-last segment, null for a path of one segment.
LeafParent(table, path) ==
    IF Len(path) = 1 THEN Null ELSE SegmentSymbol(table, path, Len(path) - 1)

\* The result the three cases prescribe for the path in the table.
LookupTableCases(table, path, result) ==
    IF \E k \in 1..(Len(path) - 1) : SegmentSymbol(table, path, k) = Null
    THEN result = LookupResult(Null, Null, Null)
    ELSE IF SegmentSymbol(table, path, Len(path)) = Null
    THEN result = LookupResult(LeafParent(table, path), LeafMap(table, path), Null)
    ELSE /\ result = LookupResult(LeafParent(table, path), LeafMap(table, path),
                                  SegmentSymbol(table, path, Len(path)))
         /\ Get(maps[result.map], path[Len(path)]) = result.symbol

\* C27: lookupTable on one table tells a missing prefix from a missing leaf:
\* with a segment before the last absent, symbol, map and parentSymbol are
\* null; with only the last absent, symbol is null, parentSymbol is the symbol
\* of the second-to-last segment (null for one segment) and map is the map
\* that would hold the leaf; with the whole path resolved, symbol is the leaf
\* and map the map that holds it.
LookupTableTellsPrefixFromLeaf ==
    [][(last'.op = "lookupTable") =>
        \A t \in last'.tracked : LookupTableCases(t.table, last'.path, t.result)
    ]_vars

\* lookupTable has looked for a.b.a in a table that holds a and a.b, which has
\* no member: the symbol is absent and the parent symbol is a.b.
LookupTableTellsPrefixFromLeafWitness ==
    /\ last.op = "lookupTable"
    /\ last.path = <<"a", "b", "a">>
    /\ \E t \in last.tracked :
           /\ t.result.symbol = Null
           /\ t.result.parentSymbol # Null
           /\ t.result.parentSymbol = lookupTable(Store, t.table, "nbtdoc", MemberPath).symbol

\* lookupTable has looked for a.b.a in a table that holds a without a member b:
\* symbol, map and parent symbol are absent.
LookupTableMissingPrefix ==
    /\ last.op = "lookupTable"
    /\ last.path = <<"a", "b", "a">>
    /\ \E t \in last.tracked :
           /\ t.result = LookupResult(Null, Null, Null)
           /\ lookupTable(Store, t.table, "nbtdoc", <<"a">>).symbol # Null

----------------------------------------------------------------------------
\* SpecTrimAlias: one document entering the top-level symbols with or without
\* a reference, making them aliases of one another, and trimming the table.

MaxTrimAliasSteps == 4

NextTrimAlias ==
    \/ \E path \in TopLevelPaths, t \in AliasTargets, usage \in {Undefined, "reference"} :
           QueryEnter("file:A", "nbtdoc", path, Addition(Undefined, t, usage))
    \/ Trim

SpecTrimAlias == Init(MaxTrimAliasSteps) /\ [][NextTrimAlias]_vars

\* The symbols the call removed: those of its symbolRemoved events.
RemovedSymbols ==
    {events'[i].symbol : i \in {j \in 1..Len(events') : events'[j].type = "symbolRemoved"}}

\* The symbols the call removed that were aliases of the target.
RemovedAliasesOf(target) == {s \in RemovedSymbols : symbols[s].aliasOf = target}

\* C28: a trim takes from the aliasAmount of every symbol that has one exactly
\* one for each of the symbol's aliases the trim removes, and changes no other
\* aliasAmount: a symbol none of whose aliases is removed keeps its own, and
\* one without aliasAmount stays without.
TrimReleasesTargetOnce ==
    [][(last'.op = "trim") =>
        \A target \in 1..Len(symbols) :
            /\ symbols'[target].hasAliasAmount = symbols[target].hasAliasAmount
            /\ symbols[target].hasAliasAmount =>
                   symbols'[target].aliasAmount =
                       symbols[target].aliasAmount - Cardinality(RemovedAliasesOf(target))
    ]_vars

\* A trim takes from every aliasAmount that is defined two for each of the
\* symbol's aliases it removes, and leaves alone the others.
TrimReleasesTargetTwice ==
    [][(last'.op = "trim") =>
        \A target \in 1..Len(symbols) :
            AliasAmount(target)' =
                IF symbols[target].hasAliasAmount
                THEN AliasAmount(target) - 2 * Cardinality(RemovedAliasesOf(target))
                ELSE 0
    ]_vars

----------------------------------------------------------------------------
\* The nbtdoc checker (entry.ts). The two documents are each the file of a
\* module of one segment; each holds one compound definition and one use
\* clause, not exported, whose path from the global root names the compound
\* of the other module.

\* segToIdentifier of the module the binder binds to the document.
ModuleOf(uri) == IF uri = "file:A" THEN "a" ELSE "b"

\* The identifier of the document's compound definition.
CompoundOf(uri) == IF uri = "file:A" THEN "b" ELSE "a"

\* The use clause of the document: the module its path names and the last token.
UseClauseOf(uri) ==
    IF uri = "file:A"
    THEN [module |-> "b", token |-> CompoundOf("file:B")]
    ELSE [module |-> "a", token |-> CompoundOf("file:A")]

\* uriToSeg: symbol.subcategory === 'module' && symbol.implementation?.some(loc => loc.uri === uri)
IsModuleAt(st, s, uri) ==
    /\ st.symbols[s].subcategory = "module"
    /\ \E i \in 1..Len(st.symbols[s].locs["implementation"]) :
           st.symbols[s].locs["implementation"][i].uri = uri

\* The entries of ctx.symbols.global.nbtdoc ?? {} that uriToSeg's find accepts.
ModulesAt(st, uri) ==
    IF Get(st.global, "nbtdoc") = Null
    THEN <<>>
    ELSE SelectSeq(st.maps[Get(st.global, "nbtdoc")], LAMBDA e : IsModuleAt(st, e.val, uri))

\* uriToSeg(uri, ctx), as the identifier of the module; Undefined for null.
uriToSeg(st, uri) ==
    IF ModulesAt(st, uri) = <<>> THEN Undefined ELSE ModulesAt(st, uri)[1].key

\* The first implementation location of the symbol, if any.
FirstImplementationUri(st, s) ==
    IF s = Null \/ st.symbols[s].locs["implementation"] = <<>>
    THEN Undefined
    ELSE st.symbols[s].locs["implementation"][1].uri

\* segToUri(seg, ctx): global.nbtdoc?.[identifier]?.implementation?.[0]?.uri ?? null
segToUri(st, identifier) ==
    FirstImplementationUri(st, MapGet(st, Get(st.global, "nbtdoc"), identifier))

\* compoundDefinitionHoisting: query(...).ifDeclared(report).elseEnter({ usage: 'definition', subcategory: 'compound' })
compoundDefinitionHoisting(st, uri, modIdentifier) ==
    elseEnterAfter(ifDeclaredQuery(query(st, uri, "nbtdoc", <<modIdentifier, CompoundOf(uri)>>)),
                   SymbolAddition(Undefined, "compound", Undefined, Null, <<>>, "definition")).st

\* .ifUnknown(fn) with a callback that enters nothing, on the query object a
\* call of query() has returned.
ifUnknownQuery(r) == if(r.st, r.query, "ifUnknown", Report)

\* resolveIdentPath, a token before the last:
\* query(ctx.doc, 'nbtdoc', targetId).ifUnknown(() => {}).elseEnter({ usage: 'reference' })
referenceModule(st, uri, targetId) ==
    elseEnterAfter(ifUnknownQuery(query(st, uri, "nbtdoc", <<targetId>>)),
                   Addition(Undefined, Null, "reference")).st

\* entry(node, ctx) up to its first await: null when uriToSeg finds no module
\* (the check has ended), else the hoisting of the compound definition and
\* the use clause up to resolveIdentPath's segToUri. target is the document
\* resolveIdentPath goes on to have checked, Undefined when the check has
\* ended (no module for the document, or the unknown module reported).
entryAwaiting(st, uri, modIdentifier) ==
    [st |-> st, target |-> segToUri(st, UseClauseOf(uri).module), modIdentifier |-> modIdentifier]

entry(st, uri) ==
    IF uriToSeg(st, uri) = Undefined
    THEN [st |-> st, target |-> Undefined, modIdentifier |-> Undefined]
    ELSE entryAwaiting(referenceModule(compoundDefinitionHoisting(st, uri, uriToSeg(st, uri)),
                                       uri, UseClauseOf(uri).module),
                       uri, uriToSeg(st, uri))

\* resolveIdentPath after the await, the last token:
\* query(ctx.doc, 'nbtdoc', targetId, token.value).ifUnknown(report).elseEnter({ usage: 'reference' });
\* the symbol of the query is the symbol used.
resolvedIdentPath(st, uri) ==
    elseEnterAfter(ifUnknownQuery(query(st, uri, "nbtdoc",
                                        <<UseClauseOf(uri).module, UseClauseOf(uri).token>>)),
                   Addition(Undefined, Null, "reference"))

\* useClause after resolveIdentPath has returned r:
\* query(ctx.doc, 'nbtdoc', ctx.modIdentifier, usedSymbol.identifier).ifDeclared(report)
\*   .elseEnter({ usage: 'declaration', relations: { aliasOf: usedSymbol }, visibility: File })
useClause(r, uri, modIdentifier) ==
    IF r.st.threw \/ r.query.symbol = Null
    THEN r.st
    ELSE elseEnterAfter(ifDeclaredQuery(query(r.st, uri, "nbtdoc",
                                              <<modIdentifier, r.st.symbols[r.query.symbol].identifier>>)),
                        SymbolAddition(Undefined, Undefined, File, r.query.symbol, <<>>, "declaration")).st

\* A running entry(): its document, where it stands ("await": at
\* await ctx.service.check of the target; "resumed": that check has returned),
\* its ctx.modIdentifier and the document of the module its use clause names.
CheckFrame(uri, pc, modIdentifier, target) ==
    [target |-> target, uri |-> uri, modIdentifier |-> modIdentifier, pc |-> pc]

\* The check the innermost entry() awaited has returned.
Resumed(stack) ==
    IF stack = <<>> THEN <<>> ELSE [stack EXCEPT ![Len(stack)].pc = "resumed"]

\* The outcome r of entry() on the document, up to its first await.
CheckStarted(uri, r) ==
    /\ Commit(r.st)
    /\ checks' = [stack |-> IF r.target # Undefined
                            THEN Append(checks.stack,
                                        CheckFrame(uri, "await", r.modIdentifier, r.target))
                            ELSE Resumed(checks.stack),
                  started |-> [(IF checks.stack = <<>> THEN NoChecks.started ELSE checks.started)
                                  EXCEPT ![uri] = @ + 1]]
    /\ last' = Call("check", uri, <<>>, NoAddition, Null, Undefined, r.st.threw, 0, Null, 0, {})
    /\ UNCHANGED <<queries, blocks>>

\* ctx.service.check(node, doc): the service starts a check session on the
\* document, or resolveIdentPath has the document of the module it resolved
\* checked before it goes on. The service runs the checker of the document,
\* entry(), inline; nothing is asked about the checks that are running.
Check(uri) ==
    /\ steps > 0
    /\ steps' = steps - 1
    /\ \/ checks.stack = <<>>
       \/ /\ checks.stack # <<>>
          /\ checks.stack[Len(checks.stack)].pc = "await"
          /\ checks.stack[Len(checks.stack)].target = uri
    /\ CheckStarted(uri, entry(Store, uri))

\* The innermost entry(), of the frame f, has run to its end, leaving the store st.
CheckEnded(f, st) ==
    /\ Commit(st)
    /\ checks' = [checks EXCEPT !.stack = Resumed(SubSeq(checks.stack, 1, Len(checks.stack) - 1))]
    /\ last' = Call("checked", f.uri, <<>>, NoAddition, Null, Undefined, st.threw, 0, Null, 0, {})
    /\ UNCHANGED <<queries, blocks>>

\* The check resolveIdentPath awaited has returned: resolveIdentPath resolves
\* the last token, useClause enters the alias, and entry() ends.
CheckResume ==
    /\ steps > 0
    /\ steps' = steps - 1
    /\ checks.stack # <<>>
    /\ checks.stack[Len(checks.stack)].pc = "resumed"
    /\ CheckEnded(checks.stack[Len(checks.stack)],
                  useClause(resolvedIdentPath(Store, checks.stack[Len(checks.stack)].uri),
                            checks.stack[Len(checks.stack)].uri,
                            checks.stack[Len(checks.stack)].modIdentifier))

\* The binder: the document is an implementation of its module's symbol.
Bind(uri, subcategory) ==
    /\ checks.stack = <<>>
    /\ QueryEnter(uri, "nbtdoc", <<ModuleOf(uri)>>,
                  SymbolAddition(Undefined, subcategory, Undefined, Null, <<>>, "implementation"))

----------------------------------------------------------------------------
\* SpecCheck: the binder binding either document to its module, as a module
\* or not, and check sessions on either document.

MaxCheckSteps == 6

NextCheck ==
    \/ \E uri \in Uris, subcategory \in {"module", Undefined} : Bind(uri, subcategory)
    \/ \E uri \in Uris : Check(uri)
    \/ CheckResume

SpecCheck == Init(MaxCheckSteps) /\ [][NextCheck]_vars

\* C30: no check of a document is started while a check of it is running,
\* and in a check session the check of each document is started at most once
\* (so that a session ends after at most one check of each document).
CheckNeverReentered ==
    /\ \A uri \in Uris : checks.started[uri] <= 1
    /\ \A i, j \in 1..Len(checks.stack) :
           i # j => checks.stack[i].uri # checks.stack[j].uri

\* Once the check of one document awaits the check of the other, which
\* awaits the check of the first, no check ever ends: every step of the
\* checker starts one more.
MutualUseRecursesForever ==
    [][(Len(checks.stack) >= 2 /\ checks' # checks) =>
        Len(checks'.stack) = Len(checks.stack) + 1
    ]_vars

----------------------------------------------------------------------------
\* SpecTasks: tasks that each run one symbols.query(...).enter(...) with no
\* visibility given, at a top-level path or at the member path, in whatever
\* order they reach the call.

MaxTaskSteps == 3

\* What one task enters.
Task(uri, path, addition) == [path |-> path, uri |-> uri, addition |-> addition]

TaskPaths == TopLevelPaths \cup {MemberPath}
TaskUsages == {Undefined, "declaration"}

NextTasks ==
    \E uri \in Uris, path \in TaskPaths, t \in AliasTargets, u \in TaskUsages :
        QueryEnter(uri, "nbtdoc", path, Addition(Undefined, t, u))

SpecTasks == Init(MaxTaskSteps) /\ [][NextTasks]_vars

\* The store as the call after this one finds it.
Afterwards(st) == [st EXCEPT !.events = <<>>, !.threw = FALSE, !.ret = Null]

\* The store after the task has run its query(...).enter(...) on the store st.
queryEnter(st, task) ==
    Afterwards(enterQuery(query(st, task.uri, "nbtdoc", task.path), task.addition).st)

RECURSIVE EntriesOfMap(_, _, _)
\* The pairs <<path, symbol>> of a map, at any member depth.
EntriesOfMap(st, map, prefix) ==
    IF map = Null
    THEN {}
    ELSE UNION {{<<Append(prefix, st.maps[map][i].key), st.maps[map][i].val>>}
                \cup EntriesOfMap(st, st.symbols[st.maps[map][i].val].members,
                                  Append(prefix, st.maps[map][i].key))
                : i \in 1..Len(st.maps[map])}

EntriesOfTable(st, table) == UNION {EntriesOfMap(st, table[i].val, <<>>) : i \in 1..Len(table)}

\* The locations of one usage of a symbol, as a multiset.
LocationBag(st, s, type) ==
    [l \in {SymbolLocation(uri, b) : uri \in Uris, b \in BOOLEAN} |->
        Cardinality({i \in 1..Len(st.symbols[s].locs[type]) : st.symbols[s].locs[type][i] = l})]

\* What the comparison of two tables looks at: the tier and path of each
\* symbol, its locations of each usage and its aliasAmount (undefined as 0).
SymbolView(st, tier, e) ==
    <<tier, e[1], [type \in UsageTypeSet |-> LocationBag(st, e[2], type)],
      IF st.symbols[e[2]].hasAliasAmount THEN st.symbols[e[2]].aliasAmount ELSE 0>>

TableView(st) ==
    {SymbolView(st, <<"global">>, e) : e \in EntriesOfTable(st, st.global)}
    \cup UNION {{SymbolView(st, <<uf[1], uf[2]>>, e)
                 : e \in EntriesOfTable(st, st.stackObjs[st.stacks[uf[1]]][uf[2]])}
                : uf \in {uf \in Uris \X (1..Len(st.stackObjs) + 1) :
                            /\ st.stacks[uf[1]] # Null
                            /\ uf[2] <= Len(st.stackObjs[st.stacks[uf[1]]])}}

\* The task whose call the last step was.
LastTask == Task(last.uri, last.path, last.addition)

\* The tasks that may run next to it.
OtherTasks(paths, targets) ==
    {Task(uri, path, Addition(Undefined, t, u)) :
        uri \in Uris, path \in paths, t \in targets, u \in TaskUsages}

\* The task has run on the store before and left the store after. The other
\* task runs next, or the other task had run first: the same table.
SameInBothOrders(before, after, task, other) ==
    TableView(queryEnter(after, other)) = TableView(queryEnter(queryEnter(before, other), task))

\* C31: two tasks that each run one query(...).enter(...) at top-level paths,
\* the same or not, with no visibility given, leave the same table in both
\* orders: the same symbols at the same paths and tiers, with the same
\* locations of each usage and the same aliasAmount.
TasksCommute ==
    [][(last'.op = "queryEnter" /\ Len(last'.path) = 1) =>
        \A other \in OtherTasks(TopLevelPaths, AliasTargets) :
            SameInBothOrders(Store, Store', LastTask', other)
    ]_vars

\* The same holds of tasks at top-level paths that name no alias target.
TasksWithoutAliasCommute ==
    [][(last'.op = "queryEnter" /\ Len(last'.path) = 1 /\ last'.addition.aliasOf = Null) =>
        \A other \in OtherTasks(TopLevelPaths, {Null}) :
            SameInBothOrders(Store, Store', LastTask', other)
    ]_vars

\* A task at the member path and the task that enters its parent, with no
\* alias target: the same table in both orders.
MemberTasksCommute ==
    [][(last'.op = "queryEnter" /\ last'.addition.aliasOf = Null) =>
        \A other \in OtherTasks(TaskPaths, {Null}) :
            SameInBothOrders(Store, Store', LastTask', other)
    ]_vars

----------------------------------------------------------------------------
\* SpecRace: tasks that each construct a query for the same top-level path
\* and later, in one synchronous stretch, run
\* q.ifDeclared(report).elseEnter({ usage: { type: 'declaration' } }) on the
\* query object they hold.

MaxRaceSteps == 5
MaxRaceQueries == 3

\* q.ifDeclared(report).elseEnter(addition) on the query object q.
\* last.called is 1 when report ran.
IfDeclaredElseEnterOn(q, addition) ==
    /\ Step
    /\ QueryCallDone("ifDeclaredElseEnterOn", q, addition, "ifDeclared",
                     elseEnterAfter(ifDeclaredQuery([st |-> Store, query |-> BoundQuery(q)]),
                                    addition))

NextRace ==
    \/ \E uri \in Uris : Len(queries) < MaxRaceQueries /\ Query(uri, "nbtdoc", <<"a">>)
    \/ \E q \in 1..Len(queries) :
           IfDeclaredElseEnterOn(q, Addition(Undefined, Null, "declaration"))

SpecRace == Init(MaxRaceSteps) /\ [][NextRace]_vars

\* The declarations recorded at the path of the last call, in the store st.
DeclarationsAt(st, path) == Len(LocationsAt(st, path, "declaration"))

\* C32: of the tasks that run the chain on their own query for one path, the
\* first enters the declaration and every later one finds it declared: it
\* calls report and adds no location, even when its query was constructed
\* while the path was unknown. So the table ends with one declaration at the
\* path, and of two tasks exactly one calls report.
RacingTasksDeclareOnce ==
    [][last'.op = "ifDeclaredElseEnterOn" =>
        IF DeclarationsAt(Store, last'.path) = 0
        THEN last'.called = 0 /\ DeclarationsAt(Store', last'.path) = 1
        ELSE last'.called = 1 /\ DeclarationsAt(Store', last'.path) = DeclarationsAt(Store, last'.path)
    ]_vars

\* What the chain does: it decides by the symbol the query object holds. A
\* query object that holds none enters a declaration and does not report,
\* whatever the table holds by then; one that holds a declared symbol reports.
ChainDecidesByQueryObject ==
    [][last'.op = "ifDeclaredElseEnterOn" =>
        IF queries[last'.q].symbol = Null
        THEN last'.called = 0
             /\ DeclarationsAt(Store', last'.path) = DeclarationsAt(Store, last'.path) + 1
        ELSE last'.called = 1
             /\ DeclarationsAt(Store', last'.path) = DeclarationsAt(Store, last'.path)
    ]_vars

\* Two declarations at the path and no report: both tasks have entered.
BothTasksEntered ==
    /\ last.op = "ifDeclaredElseEnterOn"
    /\ last.called = 0
    /\ DeclarationsAt(Store, last.path) = 2

----------------------------------------------------------------------------
\* SpecStale: one document entering references at two top-level paths and a
\* member path, constructing query objects, retracting its locations, and
\* entering on the query objects it holds.

MaxStaleSteps == 5
MaxStaleQueries == 1

StalePaths == {<<"a">>, <<"b">>, MemberPath}

NextStale ==
    \/ \E path \in StalePaths :
           QueryEnter("file:A", "nbtdoc", path, Addition(Undefined, Null, "reference"))
    \/ \E path \in StalePaths : Len(queries) < MaxStaleQueries /\ Query("file:A", "nbtdoc", path)
    \/ Clear("file:A")
    \/ RemoveLocations(UriPredicate("file:A"))
    \/ Trim
    \/ \E q \in 1..Len(queries) : Enter(q, Addition(Undefined, Null, "reference"))

SpecStale == Init(MaxStaleSteps) /\ [][NextStale]_vars

\* The symbol lookup(category, path, uri) resolves in the store st.
LookedUp(st, uri, path) == lookup(getStack(st, uri), "nbtdoc", path, uri).symbol

\* C33: the symbol an enter with no visibility given has created or amended
\* is the one lookup resolves afterwards for the same document, category and
\* path, whatever was retracted since the query object was constructed.
EnteredIsResolvable ==
    [][(last'.op = "enter" /\ ~last'.threw) =>
        /\ last'.symbol # Null
        /\ LookedUp(Store', last'.uri, last'.path) = last'.symbol
    ]_vars

\* What enter does: a query object that holds a map (this.#map ??= ...) enters
\* into that map, in the table or not.
EnterUsesCapturedMap ==
    [][(last'.op = "enter" /\ ~last'.threw /\ queries[last'.q].map # Null) =>
        /\ queries'[last'.q].map = queries[last'.q].map
        /\ MapGet(Store', queries[last'.q].map, last'.path[Len(last'.path)]) = last'.symbol
    ]_vars

\* An enter has returned a symbol that is in no table.
EnteredIntoDetachedMap ==
    /\ last.op = "enter"
    /\ ~last.threw
    /\ last.symbol # Null
    /\ last.symbol \notin PresentSymbols(Store)

----------------------------------------------------------------------------
\* Alias targets under retraction, on the calls of SpecAlias.

\* The present symbols of the store st whose alias target is not present.
DanglingAliases(st) ==
    {a \in PresentSymbols(st) :
        st.symbols[a].aliasOf # Null /\ st.symbols[a].aliasOf \notin PresentSymbols(st)}

\* C34: trim, removeLocations and clear never remove a symbol that a symbol
\* still present afterwards aliases: every alias whose target was present
\* before the call and that is present after it has its target present.
RetractKeepsAliasTargets ==
    [][last'.op \in {"trim", "removeLocations", "clear"} =>
        \A a \in DanglingAliases(Store') : symbols[a].aliasOf \notin PresentSymbols(Store)
    ]_vars

\* What keeps a target: a defined aliasAmount above zero, or a location.
RetractKeepsCountedTargets ==
    [][last'.op \in {"trim", "removeLocations", "clear"} =>
        \A a \in DanglingAliases(Store') :
            \/ symbols[a].aliasOf \notin PresentSymbols(Store)
            \/ /\ AllLocations(symbols'[symbols[a].aliasOf]) = <<>>
               /\ AliasAmount(symbols[a].aliasOf) = 0
    ]_vars

----------------------------------------------------------------------------
\* SpecDiscard: one document entering the symbol a in the global table, in
\* its stack and in a block, with and without a location, the member a.b, and
\* a File alias b of another symbol; trimming, clearing and leaving the block.

MaxDiscardSteps == 4

NextDiscard ==
    \/ \E v \in SymbolVisibility \ {Restricted}, u \in {Undefined, "reference"} :
           QueryEnter("file:A", "nbtdoc", <<"a">>, Addition(v, Null, u))
    \/ QueryEnter("file:A", "nbtdoc", MemberPath, Addition(Undefined, Null, "reference"))
    \/ \E t \in AliasTargets \ {Null} :
           QueryEnter("file:A", "nbtdoc", <<"b">>, Addition(File, t, Undefined))
    \/ BlockBegin("file:A")
    \/ BlockEnd
    \/ Clear("file:A")
    \/ Trim

SpecDiscard == Init(MaxDiscardSteps) /\ [][NextDiscard]_vars

\* The symbols the step discards: in a table before it, in none after it.
Discarded == PresentSymbols(Store) \ PresentSymbols(Store')

\* The discarded aliases of the target t.
DiscardedAliasesOf(t) == {s \in Discarded : symbols[s].aliasOf = t}

\* symbolRemoved is published exactly once for the symbol.
RemovedOnce(s) == Cardinality(EventsOf("symbolRemoved", s)) = 1

\* The alias count of the target of the discarded alias s, when the target
\* has one, goes down by the number of its aliases that are discarded.
TargetReleased(s) ==
    (symbols[s].aliasOf # Null /\ symbols[symbols[s].aliasOf].hasAliasAmount) =>
        /\ symbols'[symbols[s].aliasOf].hasAliasAmount
        /\ symbols'[symbols[s].aliasOf].aliasAmount =
               symbols[symbols[s].aliasOf].aliasAmount
               - Cardinality(DiscardedAliasesOf(symbols[s].aliasOf))

\* C35: every symbol that stops being in a table has symbolRemoved published
\* for it exactly once, and the alias count of its target is released,
\* whether trim deleted it, it was a member of a trimmed symbol, or it was in
\* a stack clear dropped or in a frame block popped.
EveryDiscardedSymbolRemoved ==
    [][\A s \in Discarded : RemovedOnce(s) /\ TargetReleased(s)]_vars

\* The part of it about the calls of the given names, events only.
RemovedOnceBy(ops) == last'.op \in ops => \A s \in Discarded : RemovedOnce(s)

TrimPublishesEveryRemoval == [][RemovedOnceBy({"trim"})]_vars
ClearPublishesEveryRemoval == [][RemovedOnceBy({"clear"})]_vars
BlockPublishesEveryRemoval == [][RemovedOnceBy({"blockEnd"})]_vars

\* What the code publishes: symbolRemoved at most once for a symbol, and only
\* for a symbol the step discards.
RemovedEventsAreOfDiscarded ==
    [][\A s \in 1..Len(symbols) :
          /\ Cardinality(EventsOf("symbolRemoved", s)) <= 1
          /\ Cardinality(EventsOf("symbolRemoved", s)) = 1 => s \in Discarded
    ]_vars

----------------------------------------------------------------------------
\* Entering a Block symbol over a global one, on the calls of SpecEnter.

\* The last call is query(doc, category, p).enter with visibility Block at a
\* top-level path p, made inside a block of the document, where the global
\* table held a Public symbol (visibility Public or absent) at p and no frame
\* of the document's stack held a symbol at p.
EnteredBlockOverGlobal ==
    /\ last'.op = "queryEnter"
    /\ Len(last'.path) = 1
    /\ last'.addition.visibility = Block
    /\ blocks # <<>>
    /\ blocks[Len(blocks)].uri = last'.uri
    /\ SymbolIn(global, last'.path) # Null
    /\ symbols[SymbolIn(global, last'.path)].visibility \in {Public, Undefined}
    /\ HoldingFrames(last'.uri, last'.path) = {}

\* The symbol the innermost frame of the document's stack holds at the path
\* after the step.
InnermostFrameSymbol(uri, path) ==
    lookupTable(Store', stackObjs'[stacks'[uri]][Len(stackObjs'[stacks'[uri]])], "nbtdoc", path).symbol

\* C36: such an enter creates a new symbol in the innermost frame of the
\* document's stack, which the document then resolves at p instead of the
\* global one, and leaves the global symbol as it was.
EnterBlockShadowsGlobal ==
    [][EnteredBlockOverGlobal =>
        /\ ~last'.threw
        /\ Len(symbols') = Len(symbols) + 1
        /\ last'.symbol = Len(symbols')
        /\ InnermostFrameSymbol(last'.uri, last'.path) = last'.symbol
        /\ LookupOfCall(Store', last') = last'.symbol
        /\ symbols'[SymbolIn(global, last'.path)] = symbols[SymbolIn(global, last'.path)]
    ]_vars

\* What such an enter does: the query object holds the global symbol, enter
\* amends it, and the change of visibility is refused; no symbol is created
\* and the stack holds none at p.
EnterBlockOverGlobalThrows ==
    [][EnteredBlockOverGlobal =>
        /\ last'.threw
        /\ Len(symbols') = Len(symbols)
        /\ InnermostFrameSymbol(last'.uri, last'.path) = Null
        /\ LookupOfCall(Store', last') = SymbolIn(global, last'.path)
    ]_vars

----------------------------------------------------------------------------
\* SpecVisibleSymbols: two documents entering symbols at the top-level paths
\* in the global table, in their stacks and in a block of document A, and
\* asking for the visible symbols of the category.

MaxVisibleSymbolsSteps == 4

\* symbols.getVisibleSymbols(uri, category); last.tracked holds the result.
GetVisibleSymbols(uri, category) ==
    /\ Step
    /\ Commit(getStack(Store, uri))
    /\ last' = Call("getVisibleSymbols", uri, <<>>, NoAddition, Null, Undefined, FALSE, 0, Null, 0,
                    {getVisibleSymbols(getStack(Store, uri), uri, category)})
    /\ UNCHANGED <<queries, blocks>>

NextVisibleSymbols ==
    \/ \E uri \in Uris, path \in TopLevelPaths, v \in {Undefined, File} :
           QueryEnter(uri, "nbtdoc", path, Addition(v, Null, "reference"))
    \/ \E path \in TopLevelPaths :
           QueryEnter("file:A", "nbtdoc", path, Addition(Block, Null, "reference"))
    \/ BlockBegin("file:A")
    \/ BlockEnd
    \/ \E uri \in Uris : GetVisibleSymbols(uri, "nbtdoc")

SpecVisibleSymbols == Init(MaxVisibleSymbolsSteps) /\ [][NextVisibleSymbols]_vars

\* The symbol query(uri, category, id) resolves in the store st (Null for none).
QueryResolves(st, uri, id) == query(st, uri, "nbtdoc", <<id>>).query.symbol

\* C37: getVisibleSymbols(uri, category) maps an identifier to the symbol S
\* exactly when query(uri, category, id) resolves S: it holds the visible
\* symbols of the global table and of every frame of the document's stack,
\* the innermost first.
VisibleSymbolsAgreeWithQuery ==
    [][last'.op = "getVisibleSymbols" =>
        \A result \in last'.tracked : \A id \in Identifiers :
            Get(result, id) = QueryResolves(Store', last'.uri, id)
    ]_vars

\* One half of it: what getVisibleSymbols holds at an identifier is what
\* query resolves.
VisibleSymbolsAreResolved ==
    [][last'.op = "getVisibleSymbols" =>
        \A result \in last'.tracked : \A id \in Identifiers :
            Has(result, id) => Get(result, id) = QueryResolves(Store', last'.uri, id)
    ]_vars

\* The tables of the document's scope chain that hold the category.
CategoryTables(uri) ==
    {i \in 1..Len(ScopeChain(uri)) : Get(ScopeChain(uri)[i], "nbtdoc") # Null}

\* What getVisibleSymbols returns: the visible entries of one map, that of the
\* innermost table of [global, ...stack] that holds the category.
VisibleSymbolsOfOneMap ==
    [][last'.op = "getVisibleSymbols" =>
        \A result \in last'.tracked :
            IF CategoryTables(last'.uri) = {}
            THEN result = <<>>
            ELSE result = filterVisibleSymbols(
                              Store', last'.uri,
                              Get(ScopeChain(last'.uri)[InnermostTable(CategoryTables(last'.uri))],
                                  "nbtdoc"))
    ]_vars

====
